---- MODULE Spec2Model ----
(***************************************************************************)
(* SpendWise (Doosix/spend): the application shell App.tsx                 *)
(* (src/unnamed/part_004) as a state machine: the bill auto-pay scheduler  *)
(* (runBillLogic), the budget/goal alert evaluator (checkAlerts), the      *)
(* notification emitter (pushNotification) and the transaction handlers    *)
(* (addTransaction, handleUpdateTransaction, deleteTransaction, payBill).  *)
(*                                                                         *)
(* Conventions.                                                            *)
(*  - Amounts are integers (whole currency units).                         *)
(*  - An instant (a JS Date / Date.now()) is a count of time units since   *)
(*    the calendar epoch at 00:00 UTC; one day is DAY_MS units.  The       *)
(*    browser's time zone is tz units east of UTC.                         *)
(*  - A date string "YYYY-MM-DD" is the number of that calendar day since  *)
(*    the epoch (a bijection); NoDate is the absent / empty string.        *)
(*  - Ids made by uuidv4() are drawn from the counter nextId; NoId is an   *)
(*    absent optional id.                                                  *)
(*  - A text is a sequence of tokens: the characters of a name, or a       *)
(*    fixed fragment of a message template.                                *)
(***************************************************************************)
EXTENDS Integers, Sequences, FiniteSets, TLC

VARIABLES
    now,            \* the wall clock: the instant Date.now() returns
    tz,             \* the browser's offset from UTC, in time units
    isLoading,      \* App state: isLoading
    transactions,   \* App state: transactions (most recent first)
    bills,          \* App state: bills
    goals,          \* App state: goals
    budgets,        \* App state: budgets
    notifications,  \* App state: notifications (most recent first)
    pending,        \* handlers suspended at their await, with their closures
    stored,         \* what the persistence collaborator holds
    nextId,         \* the next id uuidv4() hands out
    loads,          \* history: how many times loadData has run
    paid,           \* history: the automatic payments made, by pass
    ops,            \* history: how many user operations have been started
    last            \* history: the last handler that ran, its inputs and outputs

vars == <<now, tz, isLoading, transactions, bills, goals, budgets,
          notifications, pending, stored, nextId, loads, paid, ops, last>>

----------------------------------------------------------------------------
(* Bounds of the model *)

\* bills held by the store at session start
MaxBills == 2
\* how many time units the clock advances past InitNow
Horizon == 9
\* scheduler passes (session loads) in one behaviour
MaxLoads == 2
\* user operations (add, update, delete, pay) in one behaviour
MaxOps == 3
\* manual bill payments in one behaviour of the scheduler's specification
MaxPays == 1
\* handlers whose store call is outstanding at the same time
MaxPending == 2

\* an absent optional date string / id (undefined)
NoDate == -1
NoId == 0

\* 24 * 60 * 60 * 1000 ms, in time units (one unit is six hours)
DAY_MS == 4

\* first instant of the model's window: 2026-11-30T00:00Z, the last day of a 30-day month
InitNow == 29 * DAY_MS

\* 2026-11-01, a Sunday; months are 0-based as in JS
Epoch == [year |-> 2026, month |-> 10, weekday |-> 0]

TimeZones == {-1, 0, 1}

----------------------------------------------------------------------------
(* The JS Date operations the code uses *)

IsLeap(y) == (y % 4 = 0 /\ y % 100 # 0) \/ y % 400 = 0

DaysInMonth(y, m) ==
    IF m = 1 THEN (IF IsLeap(y) THEN 29 ELSE 28)
    ELSE IF m \in {3, 5, 8, 10} THEN 30 ELSE 31

RECURSIVE CivilFrom(_, _, _)
CivilFrom(y, m, d) ==
    IF d < DaysInMonth(y, m)
    THEN [year |-> y, month |-> m, date |-> d + 1]
    ELSE CivilFrom(IF m = 11 THEN y + 1 ELSE y, (m + 1) % 12, d - DaysInMonth(y, m))

\* the calendar date of day number `day`
Civil(day) == CivilFrom(Epoch.year, Epoch.month, day)

\* the local calendar day an instant falls on
LocalDay(t, z) == (t + z) \div DAY_MS

\* Date.prototype.getFullYear / getMonth / getDate / getDay (local time)
GetFullYear(t, z) == Civil(LocalDay(t, z)).year
GetMonth(t, z) == Civil(LocalDay(t, z)).month
GetDate(t, z) == Civil(LocalDay(t, z)).date
GetDay(t, z) == (LocalDay(t, z) + Epoch.weekday) % 7

\* d.toISOString().split('T')[0]: the UTC calendar date of an instant
ToISODate(t) == t \div DAY_MS

\* new Date("YYYY-MM-DD"): a date-only string is midnight UTC of that day
ParseDate(s) == s * DAY_MS

----------------------------------------------------------------------------
(* Texts *)

\* String.prototype.includes: `part` occurs in `text` as a contiguous run
Includes(text, part) ==
    \E i \in 0..(Len(text) - Len(part)) :
        \A k \in 1..Len(part) : text[i + k] = part[k]

----------------------------------------------------------------------------
(* Notification emitter *)

\* an emitter that puts the new entry behind the list
PushNotificationBehind(list, id, title, message, type, t) ==
    list \o <<[id |-> id, title |-> title, message |-> message, type |-> type,
               date |-> t, read |-> FALSE]>>

\* the list after pushNotification(title, message, type) at instant t
PushNotification(list, id, title, message, type, t) ==
    <<[id |-> id, title |-> title, message |-> message, type |-> type,
       date |-> t, read |-> FALSE]>> \o list

\* notifsToAdd.forEach(n => pushNotification(...)): each is put in front in turn
RECURSIVE PushAll(_, _, _, _)
PushAll(list, toAdd, id, t) ==
    IF toAdd = <<>> THEN list
    ELSE PushAll(PushNotification(list, id, Head(toAdd).title, Head(toAdd).msg,
                                  Head(toAdd).type, t),
                 Tail(toAdd), id + 1, t)

\* the entries an operation put in front of `before` to give `after`
Emitted(before, after) == SubSeq(after, 1, Len(after) - Len(before))

CountTitled(list, title) == Cardinality({i \in DOMAIN list : list[i].title = title})

----------------------------------------------------------------------------
(* Bill auto-pay scheduler: runBillLogic *)

\* lastPaid && lastPaid.getMonth() === today.getMonth() && same getFullYear()
IsPaidThisMonth(bill, today, z) ==
    /\ bill.lastPaidDate # NoDate
    /\ GetMonth(ParseDate(bill.lastPaidDate), z) = GetMonth(today, z)
    /\ GetFullYear(ParseDate(bill.lastPaidDate), z) = GetFullYear(today, z)

DaysUntilDue(bill, today, z) == bill.dueDateDay - GetDate(today, z)

\* currentNotifs.some(n => n.message.includes(bill.name) && Date.now() - n.date < DAY)
AlreadyAlerted(bill, currentNotifs, today) ==
    \E i \in DOMAIN currentNotifs :
        /\ Includes(currentNotifs[i].message, bill.name)
        /\ today - currentNotifs[i].date < DAY_MS

\* the bill gets a "Bill Due Soon" reminder
ReminderDue(bill, currentNotifs, today, z) ==
    /\ ~IsPaidThisMonth(bill, today, z)
    /\ ~bill.autoPay
    /\ DaysUntilDue(bill, today, z) >= 0
    /\ DaysUntilDue(bill, today, z) <= 3
    /\ ~AlreadyAlerted(bill, currentNotifs, today)

\* an auto-pay test that does not look at the bill's autoPay flag
AutoPayDueAnyBill(bill, today, z) ==
    /\ ~IsPaidThisMonth(bill, today, z)
    /\ GetDate(today, z) >= bill.dueDateDay

\* the bill is paid by the scheduler
AutoPayDue(bill, today, z) ==
    /\ bill.autoPay
    /\ ~IsPaidThisMonth(bill, today, z)
    /\ GetDate(today, z) >= bill.dueDateDay

ReminderNotif(bill, today, z) ==
    [title |-> "Bill Due Soon",
     msg |-> <<"Your ">> \o bill.name \o
             <<" bill (Rs", ToString(bill.amount), ") is due in ">> \o
             (IF DaysUntilDue(bill, today, z) = 0 THEN <<"today">>
              ELSE <<ToString(DaysUntilDue(bill, today, z)), " days">>) \o <<".">>,
     type |-> "warning"]

AutoPayNotif(bill) ==
    [title |-> "Bill Paid Automatically",
     msg |-> <<"Paid Rs", ToString(bill.amount), " for ">> \o bill.name \o <<".">>,
     type |-> "info"]

\* the transaction the scheduler synthesizes for a bill
AutoPayTransaction(bill, id, today) ==
    [id |-> id, type |-> "expense", amount |-> bill.amount,
     description |-> bill.name \o <<" (Auto-Pay)">>, category |-> bill.category,
     date |-> ToISODate(today), createdAt |-> today,
     goalId |-> NoId, billId |-> bill.id, isRecurring |-> TRUE]

\* the body of updatedBills.map(bill => ...), with the accumulators it writes
BillStep(acc, bill, currentNotifs, today, z) ==
    LET rem == IF ReminderDue(bill, currentNotifs, today, z)
               THEN <<ReminderNotif(bill, today, z)>> ELSE <<>>
    IN  IF AutoPayDue(bill, today, z)
        THEN LET tx == AutoPayTransaction(bill, acc.id, today)
             IN  [updatedBills |-> Append(acc.updatedBills,
                                          [bill EXCEPT !.lastPaidDate = tx.date]),
                  newTransactions |-> Append(acc.newTransactions, tx),
                  billsChanged |-> TRUE,
                  notifsToAdd |-> acc.notifsToAdd \o rem \o <<AutoPayNotif(bill)>>,
                  id |-> acc.id + 1]
        ELSE [acc EXCEPT !.updatedBills = Append(@, bill),
                         !.notifsToAdd = @ \o rem]

RECURSIVE BillMap(_, _, _, _, _)
BillMap(acc, rest, currentNotifs, today, z) ==
    IF rest = <<>> THEN acc
    ELSE BillMap(BillStep(acc, Head(rest), currentNotifs, today, z),
                 Tail(rest), currentNotifs, today, z)

\* what one pass of runBillLogic computes before it writes anything
RunBillLogic(currentBills, currentNotifs, today, z, id) ==
    BillMap([updatedBills |-> <<>>, newTransactions |-> <<>>,
             billsChanged |-> FALSE, notifsToAdd |-> <<>>, id |-> id],
            currentBills, currentNotifs, today, z)


----------------------------------------------------------------------------
(* Budget/goal alert evaluator: checkAlerts *)

LOW_BALANCE_THRESHOLD == 2000

\* array.find: the first element that satisfies Test, or none
FirstIndex(seq, Test(_)) ==
    IF \E i \in DOMAIN seq : Test(seq[i])
    THEN CHOOSE i \in DOMAIN seq : Test(seq[i]) /\ \A j \in 1..(i - 1) : ~Test(seq[j])
    ELSE 0

\* list.reduce((sum, t) => sum + t.amount, 0)
RECURSIVE SumAmount(_)
SumAmount(seq) ==
    IF seq = <<>> THEN 0 ELSE Head(seq).amount + SumAmount(Tail(seq))

\* list.filter(Keep).reduce((sum, t) => sum + t.amount, 0)
SumAmounts(seq, Keep(_)) == SumAmount(SelectSeq(seq, Keep))

\* the comparison cross-multiplied as if every target were positive
PercentGEPositive(x, target, k) == x * 100 >= k * target

\* (x / target) * 100 >= k, as IEEE division decides it: x / 0 is
\* +Infinity, -Infinity or NaN, and every comparison with NaN is false
PercentGE(x, target, k) ==
    IF target > 0 THEN x * 100 >= k * target
    ELSE IF target < 0 THEN x * 100 <= k * target
    ELSE x > 0

\* (x / target) * 100 < k
PercentLT(x, target, k) ==
    IF target > 0 THEN x * 100 < k * target
    ELSE IF target < 0 THEN x * 100 > k * target
    ELSE x < 0

IsIncome(t) == t.type = "income"
IsExpense(t) == t.type = "expense"

\* a confirmation rule that does not look at the type: every transaction is
\* announced as income
IncomeAlertsAnyType(newTx) ==
    <<[title |-> "Income Received",
       msg |-> <<"You received Rs", ToString(newTx.amount), " from ">>
               \o newTx.description \o <<".">>,
       type |-> "success"]>>

\* rule 1: income confirmation
IncomeAlerts(newTx) ==
    IF newTx.type = "income"
    THEN <<[title |-> "Income Received",
            msg |-> <<"You received Rs", ToString(newTx.amount), " from ">>
                    \o newTx.description \o <<".">>,
            type |-> "success"]>>
    ELSE <<>>

\* a milestone rule that forgets where the goal stood before the deposit:
\* "Halfway There!" whenever the new amount is at or above half the target
GoalAlertsRepeating(newTx, gls) ==
    LET i == FirstIndex(gls, LAMBDA g : g.id = newTx.goalId)
    IN  IF newTx.goalId = NoId \/ i = 0 THEN <<>>
        ELSE IF PercentGE(gls[i].currentAmount + newTx.amount, gls[i].targetAmount, 50)
        THEN <<[title |-> "Halfway There!",
                msg |-> <<"You're 50% of the way to ">> \o gls[i].name
                        \o <<". Keep it up!">>,
                type |-> "info"]>>
        ELSE <<>>

\* a milestone rule whose two tests are independent: a deposit that crosses
\* the half and the whole announces both
GoalAlertsBoth(newTx, gls) ==
    LET i == FirstIndex(gls, LAMBDA g : g.id = newTx.goalId)
    IN  IF newTx.goalId = NoId \/ i = 0 THEN <<>>
        ELSE LET goal == gls[i]
                 newAmount == goal.currentAmount + newTx.amount
             IN  (IF /\ PercentGE(newAmount, goal.targetAmount, 100)
                     /\ PercentLT(goal.currentAmount, goal.targetAmount, 100)
                  THEN <<[title |-> "Goal Completed!",
                          msg |-> <<"You've reached your goal: ">> \o goal.name \o <<"!">>,
                          type |-> "success"]>>
                  ELSE <<>>)
                 \o (IF /\ PercentGE(newAmount, goal.targetAmount, 50)
                        /\ PercentLT(goal.currentAmount, goal.targetAmount, 50)
                     THEN <<[title |-> "Halfway There!",
                             msg |-> <<"You're 50% of the way to ">> \o goal.name
                                     \o <<". Keep it up!">>,
                             type |-> "info"]>>
                     ELSE <<>>)

\* rule 2: goal milestone, against the goals of the handler's closure
GoalAlerts(newTx, gls) ==
    LET i == FirstIndex(gls, LAMBDA g : g.id = newTx.goalId)
    IN  IF newTx.goalId = NoId \/ i = 0 THEN <<>>
        ELSE LET goal == gls[i]
                 newAmount == goal.currentAmount + newTx.amount
             IN  IF /\ PercentGE(newAmount, goal.targetAmount, 100)
                    /\ PercentLT(goal.currentAmount, goal.targetAmount, 100)
                 THEN <<[title |-> "Goal Completed!",
                         msg |-> <<"You've reached your goal: ">> \o goal.name \o <<"!">>,
                         type |-> "success"]>>
                 ELSE IF /\ PercentGE(newAmount, goal.targetAmount, 50)
                         /\ PercentLT(goal.currentAmount, goal.targetAmount, 50)
                 THEN <<[title |-> "Halfway There!",
                         msg |-> <<"You're 50% of the way to ">> \o goal.name
                                 \o <<". Keep it up!">>,
                         type |-> "info"]>>
                 ELSE <<>>

\* income - expense over [newTx, ...currentTransactions]
Balance(all) == SumAmounts(all, IsIncome) - SumAmounts(all, IsExpense)

\* a low-balance rule that repeats: it warns whenever the balance is below the
\* threshold, wherever it stood before
BalanceAlertsBelow(newTx, currentTransactions) ==
    LET balance == Balance(<<newTx>> \o currentTransactions)
    IN  IF balance < LOW_BALANCE_THRESHOLD
        THEN <<[title |-> "Low Balance Warning",
                msg |-> <<"Your balance has dropped below Rs",
                          ToString(LOW_BALANCE_THRESHOLD), ". Current: Rs",
                          ToString(balance)>>,
                type |-> "alert"]>>
        ELSE <<>>

\* rule 3: low balance
BalanceAlerts(newTx, currentTransactions) ==
    LET balance == Balance(<<newTx>> \o currentTransactions)
    IN  IF /\ balance < LOW_BALANCE_THRESHOLD
           /\ balance + (IF newTx.type = "expense" THEN newTx.amount ELSE 0)
                >= LOW_BALANCE_THRESHOLD
        THEN <<[title |-> "Low Balance Warning",
                msg |-> <<"Your balance has dropped below Rs",
                          ToString(LOW_BALANCE_THRESHOLD), ". Current: Rs",
                          ToString(balance)>>,
                type |-> "alert"]>>
        ELSE <<>>

\* new Date(y, m, 1) for the local month of instant t: local midnight of the
\* first of that month, as an instant
StartOfMonth(t, z) == (LocalDay(t, z) - (GetDate(t, z) - 1)) * DAY_MS - z

\* the sum checkAlerts calls spentThisMonth
SpentThisMonth(newTx, currentTransactions, z) ==
    SumAmounts(<<newTx>> \o currentTransactions,
               LAMBDA t : /\ t.type = "expense"
                          /\ t.category = newTx.category
                          /\ ParseDate(t.date) >= StartOfMonth(ParseDate(newTx.date), z))

\* rule 4: budget exceeded, against the budgets of the handler's closure
BudgetAlerts(newTx, currentTransactions, bgs, z) ==
    LET i == FirstIndex(bgs, LAMBDA b : b.category = newTx.category)
    IN  IF newTx.type # "expense" \/ i = 0 THEN <<>>
        ELSE LET spentThisMonth == SpentThisMonth(newTx, currentTransactions, z)
                 prevSpent == spentThisMonth - newTx.amount
             IN  IF spentThisMonth > bgs[i].limit /\ prevSpent <= bgs[i].limit
                 THEN <<[title |-> "Budget Exceeded",
                         msg |-> <<"You've exceeded your ", bgs[i].period,
                                   " limit for ", newTx.category, ".">>,
                         type |-> "alert"]>>
                 ELSE <<>>

\* the notifications checkAlerts(newTx, currentTransactions) pushes, in order
CheckAlerts(newTx, currentTransactions, gls, bgs, z) ==
    IncomeAlerts(newTx) \o GoalAlerts(newTx, gls)
        \o BalanceAlerts(newTx, currentTransactions)
        \o BudgetAlerts(newTx, currentTransactions, bgs, z)


----------------------------------------------------------------------------
(* Inputs *)

\* the name of the n-th bill: "N", "Nx", "N", ... ("N" occurs in "Nx")
BillName(n) == IF n % 2 = 1 THEN <<"N">> ELSE <<"N", "x">>
DueDays == {1, 5, 30, 31}
BillAmounts == {500}

\* a bill as handleAddBill makes it: never paid yet
NewBill(id, name, amount, dueDateDay, autoPay) ==
    [id |-> id, name |-> name, amount |-> amount, category |-> "Bills",
     dueDateDay |-> dueDateDay, autoPay |-> autoPay, lastPaidDate |-> NoDate]

\* the bill lists of n bills with ids 1..n
RECURSIVE BillLists(_)
BillLists(n) ==
    IF n = 0 THEN {<<>>}
    ELSE {Append(l, NewBill(n, BillName(n), amount, due, auto)) :
            l \in BillLists(n - 1), amount \in BillAmounts,
            due \in DueDays, auto \in BOOLEAN}

NoLast == [op |-> "none"]

\* the remote tables, the notifications kept in local storage, and `local`,
\* the transactions under the local-storage key 'spendwise_expenses'
EmptyStore == [transactions |-> <<>>, bills |-> <<>>, goals |-> <<>>,
               budgets |-> <<>>, notifications |-> <<>>, local |-> <<>>]

----------------------------------------------------------------------------
(* The store behind api.ts, its remote calls succeeding *)

\* upsert(items, { onConflict: 'id' }): a row with the id of an item becomes
\* the item, the other rows stay, the items with new ids are inserted
UpsertById(rows, items) ==
    [i \in DOMAIN rows |->
        IF \E j \in DOMAIN items : items[j].id = rows[i].id
        THEN items[CHOOSE j \in DOMAIN items : items[j].id = rows[i].id]
        ELSE rows[i]]
    \o SelectSeq(items, LAMBDA x : \A i \in DOMAIN rows : rows[i].id # x.id)

\* upsert(budgets, { onConflict: 'category' })
UpsertByCategory(rows, items) ==
    [i \in DOMAIN rows |->
        IF \E j \in DOMAIN items : items[j].category = rows[i].category
        THEN items[CHOOSE j \in DOMAIN items : items[j].category = rows[i].category]
        ELSE rows[i]]
    \o SelectSeq(items, LAMBDA x : \A i \in DOMAIN rows : rows[i].category # x.category)

\* api.saveGoals / api.saveBills: the rows after the call
SaveGoals(rows, gls) == UpsertById(rows, gls)
SaveBills(rows, bls) == UpsertById(rows, bls)

\* api.saveBudgets: nothing is sent for an empty list
SaveBudgets(rows, bgs) == IF bgs = <<>> THEN rows ELSE UpsertByCategory(rows, bgs)

----------------------------------------------------------------------------
(* api.ts, the transaction operations: each is handleRequest(apiCall,       *)
(* localFallback).  A call is described by what it leaves: whether it       *)
(* threw, the value it returned (<<>> for none) and the store after it.     *)

Threw(s) == [threw |-> TRUE, value |-> <<>>, stored |-> s]
Returned(value, s) == [threw |-> FALSE, value |-> value, stored |-> s]

\* a handleRequest without the catch: the remote call's outcome is the
\* operation's
HandleRequestNoFallback(apiCall, localFallback) == apiCall

\* handleRequest: the remote call's outcome, or, when it threw, the
\* outcome of the fallback run on the store the remote call left
HandleRequest(apiCall, localFallback) ==
    IF apiCall.threw THEN localFallback ELSE apiCall

\* supabase insert / update / delete on the transactions table; the call
\* throws when the client reports an error (up = FALSE) and then changes no row
RemoteCreate(s, t, up) ==
    IF up THEN Returned(<<t>>, [s EXCEPT !.transactions = <<t>> \o @])
    ELSE Threw(s)

RemoteUpdate(s, t, up) ==
    IF up
    THEN Returned(IF \E i \in DOMAIN s.transactions : s.transactions[i].id = t.id
                  THEN <<t>> ELSE <<>>,   \* data[0] of the rows updated
                  [s EXCEPT !.transactions =
                            [i \in DOMAIN @ |-> IF @[i].id = t.id THEN t ELSE @[i]]])
    ELSE Threw(s)

RemoteDelete(s, id, up) ==
    IF up
    THEN Returned(<<>>, [s EXCEPT !.transactions = SelectSeq(@, LAMBDA e : e.id # id)])
    ELSE Threw(s)

\* the local fallbacks: getLocal, then saveLocal; one throws when local
\* storage does (works = FALSE: unreadable JSON, quota) and then writes nothing
LocalCreate(s, t, works) ==
    IF works THEN Returned(<<t>>, [s EXCEPT !.local = <<t>> \o @])
    ELSE Threw(s)

LocalUpdate(s, t, works) ==
    IF works
    THEN Returned(<<t>>, [s EXCEPT !.local =
                            [i \in DOMAIN @ |-> IF @[i].id = t.id THEN t ELSE @[i]]])
    ELSE Threw(s)

LocalDelete(s, id, works) ==
    IF works
    THEN Returned(<<>>, [s EXCEPT !.local = SelectSeq(@, LAMBDA e : e.id # id)])
    ELSE Threw(s)

\* api.createTransaction / updateTransaction / deleteTransaction
ApiCreateTransaction(s, t, up, works) ==
    HandleRequest(RemoteCreate(s, t, up), LocalCreate(s, t, works))
ApiUpdateTransaction(s, t, up, works) ==
    HandleRequest(RemoteUpdate(s, t, up), LocalUpdate(s, t, works))
ApiDeleteTransaction(s, id, up, works) ==
    HandleRequest(RemoteDelete(s, id, up), LocalDelete(s, id, works))

----------------------------------------------------------------------------
(* Session start: the state after construction, loadData, and the clock *)

\* useState initial values; the store holds the bills of an earlier session
InitBill ==
    /\ now = InitNow
    /\ tz \in TimeZones
    /\ isLoading = TRUE
    /\ transactions = <<>>
    /\ bills = <<>>
    /\ goals = <<>>
    /\ budgets = <<>>
    /\ notifications = <<>>
    /\ pending = <<>>
    /\ \E n \in 0..MaxBills : \E bl \in BillLists(n) :
         stored = [EmptyStore EXCEPT !.bills = bl]
    /\ nextId = MaxBills + 1
    /\ loads = 0
    /\ paid = {}
    /\ ops = 0
    /\ last = NoLast

\* txs.map(t => ({ ...t, type: t.type || 'expense' }))
ValidTx(t) == IF t.type = "" THEN [t EXCEPT !.type = "expense"] ELSE t
ValidTxs(txs) == [i \in DOMAIN txs |-> ValidTx(txs[i])]

\* the entries of seq at the positions in keep, in order
RECURSIVE SelectAt(_, _, _)
SelectAt(seq, keep, i) ==
    IF i > Len(seq) THEN <<>>
    ELSE (IF i \in keep THEN <<seq[i]>> ELSE <<>>) \o SelectAt(seq, keep, i + 1)

Reverse(seq) == [i \in DOMAIN seq |-> seq[Len(seq) + 1 - i]]

\* the store calls one pass of runBillLogic issues, r what it computed
PassWrites(r) ==
    (IF r.billsChanged THEN {"saveBills", "createTransaction"} ELSE {})
    \cup (IF r.notifsToAdd # <<>> THEN {"saveNotifications"} ELSE {})

\* loadData, every read resolved: the state is set from the store and the
\* scheduler runs once; `rejected` are the positions of the synthesized
\* transactions whose api.createTransaction rejects
LoadData ==
    /\ isLoading
    /\ loads < MaxLoads
    /\ \E r \in {RunBillLogic(stored.bills, stored.notifications, now, tz, nextId)} :
       \E notifs \in {PushAll(stored.notifications, r.notifsToAdd, r.id, now)} :
       \E rejected \in SUBSET (DOMAIN r.newTransactions) :
           /\ transactions' = r.newTransactions \o ValidTxs(stored.transactions)
           /\ bills' = r.updatedBills
           /\ goals' = stored.goals
           /\ budgets' = stored.budgets
           /\ notifications' = notifs
           /\ stored' = [stored EXCEPT
                  !.bills = IF r.billsChanged THEN SaveBills(@, r.updatedBills) ELSE @,
                  !.transactions =
                      Reverse(SelectAt(r.newTransactions,
                                       DOMAIN r.newTransactions \ rejected, 1)) \o @,
                  !.notifications = IF r.notifsToAdd # <<>> THEN notifs ELSE @]
           /\ nextId' = r.id + Len(r.notifsToAdd)
           /\ last' = [op |-> "loadData", ok |-> TRUE, today |-> now,
                       bills |-> stored.bills,
                       transactions |-> ValidTxs(stored.transactions),
                       notifications |-> stored.notifications,
                       newTransactions |-> r.newTransactions,
                       notifsToAdd |-> r.notifsToAdd,
                       rejected |-> {r.newTransactions[i].id : i \in rejected},
                       store |-> stored,
                       writes |-> PassWrites(r)]
           /\ paid' = paid \cup {[billId |-> r.newTransactions[i].billId,
                                   at |-> now, pass |-> loads + 1] :
                                  i \in DOMAIN r.newTransactions}
    /\ isLoading' = FALSE
    /\ loads' = loads + 1
    /\ UNCHANGED <<now, tz, pending, ops>>

\* a catch branch that reports the failed load as information
ConnectionErrorAsInfo ==
    [title |-> "Connection Error",
     msg |-> <<"Failed to connect to the database.">>, type |-> "info"]

\* what the catch branch of loadData pushes
ConnectionError ==
    [title |-> "Connection Error",
     msg |-> <<"Failed to connect to the database.">>, type |-> "alert"]

\* loadData, a read threw: nothing is set, the scheduler does not run
LoadDataFailed ==
    /\ isLoading
    /\ loads < MaxLoads
    /\ notifications' = PushNotification(notifications, nextId,
                                         ConnectionError.title, ConnectionError.msg,
                                         ConnectionError.type, now)
    /\ stored' = [stored EXCEPT !.notifications = notifications']
    /\ nextId' = nextId + 1
    /\ isLoading' = FALSE
    /\ loads' = loads + 1
    /\ last' = [op |-> "loadData", ok |-> FALSE, today |-> now,
                bills |-> bills, transactions |-> transactions,
                notifications |-> notifications,
                newTransactions |-> <<>>, notifsToAdd |-> <<>>, rejected |-> {},
                store |-> stored, writes |-> {"saveNotifications"}]
    /\ UNCHANGED <<now, tz, transactions, bills, goals, budgets, pending, paid, ops>>

\* the page is opened again: the component is constructed anew
Restart ==
    /\ ~isLoading
    /\ pending = <<>>
    /\ loads < MaxLoads
    /\ isLoading' = TRUE
    /\ transactions' = <<>>
    /\ bills' = <<>>
    /\ goals' = <<>>
    /\ budgets' = <<>>
    /\ notifications' = <<>>
    /\ pending' = <<>>
    /\ last' = NoLast
    /\ UNCHANGED <<now, tz, stored, nextId, loads, paid, ops>>

\* time passes
Tick ==
    /\ now < InitNow + Horizon
    /\ now' = now + 1
    /\ UNCHANGED <<tz, isLoading, transactions, bills, goals, budgets,
                   notifications, pending, stored, nextId, loads, paid, ops, last>>

----------------------------------------------------------------------------
(* Transaction handlers.  Each runs to its await, where the handler is      *)
(* suspended with the values its closure captured (the state of the render  *)
(* it was called from), and continues when the store call settles.          *)

\* state.map(x => Test(x) ? F(x) : x)
MapIf(seq, Test(_), F(_)) ==
    [i \in DOMAIN seq |-> IF Test(seq[i]) THEN F(seq[i]) ELSE seq[i]]

Max(a, b) == IF a >= b THEN a ELSE b

\* the closure of a handler called now
Closure(op, t, original) ==
    [op |-> op, t |-> t, original |-> original, transactions |-> transactions,
     goals |-> goals, bills |-> bills, budgets |-> budgets]

RemoveAt(seq, i) == SubSeq(seq, 1, i - 1) \o SubSeq(seq, i + 1, Len(seq))

\* what `last` records when the handler of closure c settles
Settled(c, ok) ==
    [op |-> c.op, ok |-> ok, today |-> now, t |-> c.t, original |-> c.original,
     transactions |-> transactions, closureTransactions |-> c.transactions,
     goals |-> goals, bills |-> bills, budgets |-> budgets,
     notifications |-> notifications, closureGoals |-> c.goals]

ErrorNotif(what) ==
    [title |-> "Error", msg |-> <<"Failed to ", what, " on server.">>, type |-> "alert"]

\* a shell that shows its pages whatever isLoading says
InteractiveAlways == TRUE

\* renderContent: while isLoading the shell shows the spinner only and the
\* navigation is hidden, so no page, and no handler of a page, can be reached
Interactive == ~isLoading

\* addTransaction(t) up to `await api.createTransaction(t)`
AddTransaction(t) ==
    /\ Interactive
    /\ ops < MaxOps
    /\ transactions' = <<t>> \o transactions
    /\ pending' = Append(pending, Closure("add", t, t))
    /\ nextId' = Max(nextId, t.id + 1)
    /\ ops' = ops + 1
    /\ last' = NoLast
    /\ UNCHANGED <<now, tz, isLoading, bills, goals, budgets, notifications,
                   stored, loads, paid>>

\* addTransaction after the await: the create call resolved (ok) or rejected
AddSettled(i, ok) ==
    /\ i \in DOMAIN pending
    /\ pending[i].op = "add"
    /\ \E c \in {pending[i]} :
       \E toAdd \in {IF ok
                     THEN CheckAlerts(c.t, c.transactions, c.goals, c.budgets, tz)
                          \o (IF c.t.billId # NoId
                              THEN <<[title |-> "Bill Paid",
                                      msg |-> <<"Payment recorded for ">>
                                              \o c.t.description \o <<".">>,
                                      type |-> "success"]>>
                              ELSE <<>>)
                     ELSE <<ErrorNotif("save transaction")>>} :
           /\ goals' = IF ok /\ c.t.goalId # NoId /\ c.t.type = "expense"
                       THEN MapIf(c.goals, LAMBDA g : g.id = c.t.goalId,
                                  LAMBDA g : [g EXCEPT !.currentAmount = @ + c.t.amount])
                       ELSE goals
           /\ bills' = IF ok /\ c.t.billId # NoId
                       THEN MapIf(c.bills, LAMBDA b : b.id = c.t.billId,
                                  LAMBDA b : [b EXCEPT !.lastPaidDate = c.t.date])
                       ELSE bills
           /\ notifications' = PushAll(notifications, toAdd, nextId, now)
           /\ nextId' = nextId + Len(toAdd)
           /\ stored' = [stored EXCEPT
                  !.transactions = IF ok THEN <<c.t>> \o @ ELSE @,
                  !.goals = SaveGoals(@, goals'),
                  !.bills = SaveBills(@, bills'),
                  !.notifications = notifications']
           /\ last' = Settled(c, ok)
    /\ pending' = RemoveAt(pending, i)
    /\ UNCHANGED <<now, tz, isLoading, transactions, budgets, loads, paid, ops>>

\* payBill(bill): the payment is made by addTransaction
PayBill(bill) ==
    AddTransaction([id |-> nextId, type |-> "expense", amount |-> bill.amount,
                    description |-> bill.name, category |-> bill.category,
                    date |-> ToISODate(now), createdAt |-> now,
                    goalId |-> NoId, billId |-> bill.id, isRecurring |-> TRUE])

\* handleUpdateTransaction(updatedT) up to `await api.updateTransaction(updatedT)`
UpdateTransaction(updatedT) ==
    /\ Interactive
    /\ ops < MaxOps
    /\ \E k \in {FirstIndex(transactions, LAMBDA t : t.id = updatedT.id)} :
         pending' = Append(pending,
                           Closure("update", updatedT,
                                   IF k = 0 THEN <<>> ELSE <<transactions[k]>>))
    /\ transactions' = MapIf(transactions, LAMBDA t : t.id = updatedT.id,
                             LAMBDA t : updatedT)
    /\ ops' = ops + 1
    /\ last' = NoLast
    /\ UNCHANGED <<now, tz, isLoading, bills, goals, budgets, notifications,
                   stored, nextId, loads, paid>>

\* an edit that adds the new contribution and forgets to take back the old one
UpdatedGoalAmountAddOnly(g, original, updatedT) ==
    Max(0, g.currentAmount
           + (IF updatedT.goalId = g.id /\ updatedT.type = "expense"
              THEN updatedT.amount ELSE 0))

\* an edit that takes back and adds without the floor at zero
UpdatedGoalAmountUnfloored(g, original, updatedT) ==
    g.currentAmount
      - (IF original.goalId = g.id /\ original.type = "expense"
         THEN original.amount ELSE 0)
      + (IF updatedT.goalId = g.id /\ updatedT.type = "expense"
         THEN updatedT.amount ELSE 0)

\* the amount handleUpdateTransaction gives goal g
UpdatedGoalAmount(g, original, updatedT) ==
    Max(0, g.currentAmount
           - (IF original.goalId = g.id /\ original.type = "expense"
              THEN original.amount ELSE 0)
           + (IF updatedT.goalId = g.id /\ updatedT.type = "expense"
              THEN updatedT.amount ELSE 0))

\* handleUpdateTransaction after the await
UpdateSettled(i, ok) ==
    /\ i \in DOMAIN pending
    /\ pending[i].op = "update"
    /\ \E c \in {pending[i]} :
           /\ goals' = IF ok /\ c.original # <<>>
                       THEN [j \in DOMAIN c.goals |->
                               [c.goals[j] EXCEPT !.currentAmount =
                                   UpdatedGoalAmount(c.goals[j], c.original[1], c.t)]]
                       ELSE goals
           /\ notifications' =
                 IF ok
                 THEN PushNotification(notifications, nextId, "Transaction Updated",
                          <<"Your transaction details have been updated.">>, "info", now)
                 ELSE PushNotification(notifications, nextId, "Error",
                          ErrorNotif("update transaction").msg, "alert", now)
           /\ stored' = [stored EXCEPT
                  !.transactions = IF ok
                                   THEN MapIf(@, LAMBDA t : t.id = c.t.id, LAMBDA t : c.t)
                                   ELSE @,
                  !.goals = SaveGoals(@, goals'),
                  !.notifications = notifications']
           /\ last' = Settled(c, ok)
    /\ nextId' = nextId + 1
    /\ pending' = RemoveAt(pending, i)
    /\ UNCHANGED <<now, tz, isLoading, transactions, bills, budgets, loads, paid, ops>>

\* deleteTransaction(id), the user confirming, up to `await api.deleteTransaction(id)`
DeleteTransaction(id) ==
    /\ Interactive
    /\ ops < MaxOps
    /\ \E k \in {FirstIndex(transactions, LAMBDA t : t.id = id)} :
         pending' = Append(pending,
                           Closure("delete", id,
                                   IF k = 0 THEN <<>> ELSE <<transactions[k]>>))
    /\ transactions' = SelectSeq(transactions, LAMBDA e : e.id # id)
    /\ ops' = ops + 1
    /\ last' = NoLast
    /\ UNCHANGED <<now, tz, isLoading, bills, goals, budgets, notifications,
                   stored, nextId, loads, paid>>

\* a deletion that subtracts without the floor at zero
DeletedGoalAmountUnfloored(g, transaction) == g.currentAmount - transaction.amount

\* a deletion that leaves the goal as it is
DeletedGoalAmountKept(g, transaction) == g.currentAmount

\* the amount deleteTransaction gives the goal g the transaction is linked to
DeletedGoalAmount(g, transaction) == Max(0, g.currentAmount - transaction.amount)

\* deleteTransaction after the await
DeleteSettled(i, ok) ==
    /\ i \in DOMAIN pending
    /\ pending[i].op = "delete"
    /\ \E c \in {pending[i]} :
           /\ goals' = IF /\ ok
                          /\ c.original # <<>>
                          /\ c.original[1].goalId # NoId
                          /\ c.original[1].type = "expense"
                       THEN MapIf(c.goals, LAMBDA g : g.id = c.original[1].goalId,
                                  LAMBDA g : [g EXCEPT !.currentAmount =
                                                DeletedGoalAmount(g, c.original[1])])
                       ELSE goals
           /\ notifications' =
                 IF ok THEN notifications
                 ELSE PushNotification(notifications, nextId, "Error",
                          ErrorNotif("delete transaction").msg, "alert", now)
           /\ nextId' = IF ok THEN nextId ELSE nextId + 1
           /\ stored' = [stored EXCEPT
                  !.transactions = IF ok THEN SelectSeq(@, LAMBDA t : t.id # c.t) ELSE @,
                  !.goals = SaveGoals(@, goals'),
                  !.notifications = notifications']
           /\ last' = Settled(c, ok)
    /\ pending' = RemoveAt(pending, i)
    /\ UNCHANGED <<now, tz, isLoading, transactions, bills, budgets, loads, paid, ops>>


----------------------------------------------------------------------------
(* Notification panel *)

\* the entry markNotificationsRead makes of entry n
MarkedRead(n) == [n EXCEPT !.read = TRUE]

\* a marking that also drops the entries that were read already
MarkAllReadDropping(list) ==
    SelectSeq([i \in DOMAIN list |-> MarkedRead(list[i])],
              LAMBDA n : \E i \in DOMAIN list : list[i].id = n.id /\ ~list[i].read)

\* prev.map(n => ({ ...n, read: true }))
MarkAllRead(list) == [i \in DOMAIN list |-> MarkedRead(list[i])]

\* markNotificationsRead: prev.map(n => ({ ...n, read: true })), saved
MarkNotificationsRead ==
    /\ Interactive
    /\ notifications' = MarkAllRead(notifications)
    /\ stored' = [stored EXCEPT !.notifications = notifications']
    /\ last' = [op |-> "markRead", ok |-> TRUE, today |-> now,
                notifications |-> notifications]
    /\ UNCHANGED <<now, tz, isLoading, transactions, bills, goals, budgets,
                   pending, nextId, loads, paid, ops>>

\* clearNotifications: setNotifications([]), saved
ClearNotifications ==
    /\ Interactive
    /\ notifications' = <<>>
    /\ stored' = [stored EXCEPT !.notifications = <<>>]
    /\ last' = [op |-> "clear", ok |-> TRUE, today |-> now,
                notifications |-> notifications]
    /\ UNCHANGED <<now, tz, isLoading, transactions, bills, goals, budgets,
                   pending, nextId, loads, paid, ops>>

----------------------------------------------------------------------------
(* Goals, bills and budgets pages: each sets the list and saves it *)

\* Goals.handleCreateGoal, through handleSetGoals
CreateGoal(name, targetAmount) ==
    /\ Interactive
    /\ ops < MaxOps
    /\ goals' = Append(goals, [id |-> nextId, name |-> name,
                               targetAmount |-> targetAmount, currentAmount |-> 0])
    /\ stored' = [stored EXCEPT !.goals = SaveGoals(@, goals')]
    /\ nextId' = nextId + 1
    /\ ops' = ops + 1
    /\ last' = [op |-> "setGoals", ok |-> TRUE, today |-> now,
                notifications |-> notifications]
    /\ UNCHANGED <<now, tz, isLoading, transactions, bills, budgets, notifications,
                   pending, loads, paid>>

\* Goals.handleDelete, the user confirming, through handleSetGoals
DeleteGoal(id) ==
    /\ Interactive
    /\ ops < MaxOps
    /\ goals' = SelectSeq(goals, LAMBDA g : g.id # id)
    /\ stored' = [stored EXCEPT !.goals = SaveGoals(@, goals')]
    /\ ops' = ops + 1
    /\ last' = [op |-> "setGoals", ok |-> TRUE, today |-> now,
                notifications |-> notifications]
    /\ UNCHANGED <<now, tz, isLoading, transactions, bills, budgets, notifications,
                   pending, nextId, loads, paid>>

\* Bills.handleAddBill, through handleSetBills
AddBill(name, amount, dueDateDay, autoPay) ==
    /\ Interactive
    /\ ops < MaxOps
    /\ bills' = Append(bills, [id |-> nextId, name |-> name, amount |-> amount,
                               category |-> "Bills", dueDateDay |-> dueDateDay,
                               autoPay |-> autoPay, lastPaidDate |-> NoDate])
    /\ stored' = [stored EXCEPT !.bills = SaveBills(@, bills')]
    /\ nextId' = nextId + 1
    /\ ops' = ops + 1
    /\ last' = [op |-> "setBills", ok |-> TRUE, today |-> now,
                notifications |-> notifications]
    /\ UNCHANGED <<now, tz, isLoading, transactions, goals, budgets, notifications,
                   pending, loads, paid>>

\* Bills.handleDelete, the user confirming, through handleSetBills
DeleteBill(id) ==
    /\ Interactive
    /\ ops < MaxOps
    /\ bills' = SelectSeq(bills, LAMBDA b : b.id # id)
    /\ stored' = [stored EXCEPT !.bills = SaveBills(@, bills')]
    /\ ops' = ops + 1
    /\ last' = [op |-> "setBills", ok |-> TRUE, today |-> now,
                notifications |-> notifications]
    /\ UNCHANGED <<now, tz, isLoading, transactions, goals, budgets, notifications,
                   pending, nextId, loads, paid>>

\* the texts typed in the limit field, and what parseFloat makes of them:
\* <<v>> for the number v, <<>> for NaN
LimitTexts == {"", "0", "400", "800"}
ParseFloat(str) ==
    IF str = "" THEN <<>>
    ELSE IF str = "0" THEN <<0>>
    ELSE IF str = "400" THEN <<400>>
    ELSE <<800>>

\* a handler that pushes the new budget without dropping the category's old
\* one, and pushes whatever number was parsed
BudgetsSetAppending(bgs, category, limitStr, period) ==
    LET limit == ParseFloat(limitStr)
    IN  IF limit # <<>>
        THEN Append(bgs, [category |-> category, limit |-> limit[1],
                          period |-> period])
        ELSE bgs

\* the budget list handleSetBudget(category, limitStr, period) sets
BudgetsSet(bgs, category, limitStr, period) ==
    LET limit == ParseFloat(limitStr)
        newBudgets == SelectSeq(bgs, LAMBDA b : b.category # category)
    IN  IF limit # <<>> /\ limit[1] > 0
        THEN Append(newBudgets, [category |-> category, limit |-> limit[1],
                                 period |-> period])
        ELSE newBudgets

\* handleSetBudget, through handleSetBudgets
SetBudget(category, limitStr, period) ==
    /\ Interactive
    /\ ops < MaxOps
    /\ budgets' = BudgetsSet(budgets, category, limitStr, period)
    /\ stored' = [stored EXCEPT !.budgets = SaveBudgets(@, budgets')]
    /\ ops' = ops + 1
    /\ last' = [op |-> "setBudgets", ok |-> TRUE, today |-> now,
                notifications |-> notifications, budgets |-> budgets,
                category |-> category, limitStr |-> limitStr, period |-> period]
    /\ UNCHANGED <<now, tz, isLoading, transactions, bills, goals, notifications,
                   pending, nextId, loads, paid>>

----------------------------------------------------------------------------
(* A call of a transaction operation of api.ts, as its caller awaits it *)

\* the operation `op` is called with transaction t; the remote store is up
\* or not, local storage works or not
ApiCall(op, t, up, works) ==
    /\ Interactive
    /\ ops < MaxOps
    /\ \E r \in {IF op = "createTransaction" THEN ApiCreateTransaction(stored, t, up, works)
                 ELSE IF op = "updateTransaction"
                 THEN ApiUpdateTransaction(stored, t, up, works)
                 ELSE ApiDeleteTransaction(stored, t.id, up, works)} :
          /\ stored' = r.stored
          /\ last' = [op |-> op, t |-> t, up |-> up, works |-> works,
                      threw |-> r.threw, value |-> r.value, store |-> stored,
                      today |-> now, notifications |-> notifications]
    /\ nextId' = Max(nextId, t.id + 1)
    /\ ops' = ops + 1
    /\ UNCHANGED <<now, tz, isLoading, transactions, bills, goals, budgets,
                   notifications, pending, loads, paid>>

----------------------------------------------------------------------------
(* What the user can submit *)

GoalTargets == <<1000, 400>>
DepositAmounts == {200, 400}
ExpenseAmounts == {400}
IncomeAmounts == {2400}
BudgetLimits == {400}

\* a goal as handleCreateGoal makes it
NewGoal(id, name, targetAmount) ==
    [id |-> id, name |-> name, targetAmount |-> targetAmount, currentAmount |-> 0]

\* the goals "G1", "G2", ... with the targets of GoalTargets
InitialGoals ==
    [i \in DOMAIN GoalTargets |-> NewGoal(i, <<"G", ToString(i)>>, GoalTargets[i])]

\* Goals.handleDeposit: an expense of category Savings linked to the goal, dated
\* by the UTC calendar date
Deposit(goal, amount) ==
    [id |-> nextId, type |-> "expense", amount |-> amount,
     description |-> <<"Deposit: ">> \o goal.name, category |-> "Savings",
     date |-> ToISODate(now), createdAt |-> now,
     goalId |-> goal.id, billId |-> NoId, isRecurring |-> FALSE]

\* AddExpense.handleSubmit: the form's transaction; the goal link is kept only
\* for category Savings, the bill link only when an edited transaction had one
FormTransaction(edited, type, amount, category, date, selectedGoalId) ==
    [id |-> IF edited = <<>> THEN nextId ELSE edited[1].id,
     type |-> type, amount |-> amount, description |-> <<"shop">>,
     category |-> category, date |-> date,
     createdAt |-> IF edited = <<>> THEN now ELSE edited[1].createdAt,
     goalId |-> IF category = "Savings" THEN selectedGoalId ELSE NoId,
     billId |-> IF edited = <<>> THEN NoId ELSE edited[1].billId,
     isRecurring |-> FALSE]

GoalIds == {goals[i].id : i \in DOMAIN goals}

\* the edits of transaction t tried on goal-linked transactions: another
\* amount, another goal or none, or the type switched to income
GoalEdits(t) ==
    {FormTransaction(<<t>>, "expense", a, "Savings", t.date, g) :
        a \in DepositAmounts, g \in GoalIds}
    \cup {FormTransaction(<<t>>, "expense", a, "Food", t.date, t.goalId) :
            a \in DepositAmounts}
    \cup {FormTransaction(<<t>>, "income", t.amount, t.category, t.date, t.goalId)}

\* the ids deleteTransaction is called with: a listed transaction, or once
\* more the one just deleted
DeletableIds ==
    {transactions[i].id : i \in DOMAIN transactions}
    \cup (IF last.op = "delete" THEN {last.t} ELSE {})

\* the dates the user enters: the Saturday before, today and tomorrow by the
\* UTC calendar (2026-11-28, 2026-11-30 and 2026-12-01 at InitNow)
EnteredDates == {ToISODate(now) - 2, ToISODate(now), ToISODate(now) + 1}

BudgetPeriods == {"monthly", "weekly"}

----------------------------------------------------------------------------
(* Specifications *)

\* a session with no bills whose store holds goals never paid into
InitGoal ==
    /\ now = InitNow
    /\ tz = 0
    /\ isLoading = TRUE
    /\ transactions = <<>>
    /\ bills = <<>>
    /\ goals = <<>>
    /\ budgets = <<>>
    /\ notifications = <<>>
    /\ pending = <<>>
    /\ stored = [EmptyStore EXCEPT !.goals = InitialGoals]
    /\ nextId = Len(GoalTargets) + 1
    /\ loads = 0
    /\ paid = {}
    /\ ops = 0
    /\ last = NoLast

\* Goal-linked transactions, one handler at a time: deposits from the goals
\* page, edits and deletions of listed transactions
NextGoal ==
    \/ LoadData
    \/ (pending = <<>> /\ \E i \in DOMAIN goals : \E a \in DepositAmounts :
            AddTransaction(Deposit(goals[i], a)))
    \/ (pending = <<>> /\ \E i \in DOMAIN transactions :
            \E u \in GoalEdits(transactions[i]) : UpdateTransaction(u))
    \/ (pending = <<>> /\ \E id \in DeletableIds : DeleteTransaction(id))
    \/ \E ok \in BOOLEAN : AddSettled(1, ok)
    \/ \E ok \in BOOLEAN : UpdateSettled(1, ok)
    \/ \E ok \in BOOLEAN : DeleteSettled(1, ok)

SpecGoal == InitGoal /\ [][NextGoal]_vars

\* a session with no bills and no goals whose store holds one budget
InitAlert ==
    /\ now = InitNow
    /\ tz \in TimeZones
    /\ isLoading = TRUE
    /\ transactions = <<>>
    /\ bills = <<>>
    /\ goals = <<>>
    /\ budgets = <<>>
    /\ notifications = <<>>
    /\ pending = <<>>
    /\ \E limit \in BudgetLimits : \E period \in BudgetPeriods :
         stored = [EmptyStore EXCEPT
                     !.budgets = <<[category |-> "Food", limit |-> limit,
                                    period |-> period]>>]
    /\ nextId = 1
    /\ loads = 0
    /\ paid = {}
    /\ ops = 0
    /\ last = NoLast

\* Incomes and expenses entered in the form, one handler at a time
NextAlert ==
    \/ LoadData
    \/ (pending = <<>> /\ \E a \in ExpenseAmounts : \E d \in EnteredDates :
            AddTransaction(FormTransaction(<<>>, "expense", a, "Food", d, NoId)))
    \/ (pending = <<>> /\ \E a \in IncomeAmounts :
            AddTransaction(FormTransaction(<<>>, "income", a, "Salary",
                                           ToISODate(now), NoId)))
    \/ \E ok \in BOOLEAN : AddSettled(1, ok)

SpecAlert == InitAlert /\ [][NextAlert]_vars

\* Sessions of the bill scheduler: the store holds bills, each session loads
\* and runs the scheduler once, the user may pay a bill by hand, and the page
\* is opened again later.  The clock is advanced between sessions only: a
\* loaded session reads it in payBill alone.
NextBill ==
    \/ LoadData
    \/ Restart
    \/ (isLoading /\ Tick)
    \/ (pending = <<>> /\ ops < MaxPays /\ \E i \in DOMAIN bills : PayBill(bills[i]))
    \/ \E ok \in BOOLEAN : AddSettled(1, ok)

SpecBill == InitBill /\ [][NextBill]_vars


\* a session whose store holds one bill
InitPanel ==
    /\ InitBill
    /\ Len(stored.bills) = 1

\* Sessions with the notification panel: a load succeeds or fails, the user
\* pays a bill by hand or enters an income, marks the notifications read or
\* clears them, and the page is opened again later.
NextPanel ==
    \/ LoadData
    \/ LoadDataFailed
    \/ Restart
    \/ (pending = <<>> /\ ops < MaxPays /\ \E i \in DOMAIN bills : PayBill(bills[i]))
    \/ \E ok \in BOOLEAN : AddSettled(1, ok)
    \/ (pending = <<>> /\ ops < MaxPays /\ \E a \in IncomeAmounts :
            AddTransaction(FormTransaction(<<>>, "income", a, "Salary",
                                           ToISODate(now), NoId)))
    \/ (pending = <<>> /\ MarkNotificationsRead)
    \/ (pending = <<>> /\ ClearNotifications)

SpecPanel == InitPanel /\ [][NextPanel]_vars

BudgetCategories == {"Food", "Transport"}

\* a session with an empty store
InitLists ==
    /\ now = InitNow
    /\ tz = 0
    /\ isLoading = TRUE
    /\ transactions = <<>>
    /\ bills = <<>>
    /\ goals = <<>>
    /\ budgets = <<>>
    /\ notifications = <<>>
    /\ pending = <<>>
    /\ stored = EmptyStore
    /\ nextId = 1
    /\ loads = 0
    /\ paid = {}
    /\ ops = 0
    /\ last = NoLast

\* Goals, bills and budgets are created, changed and removed on their pages,
\* and the page is opened again.
NextLists ==
    \/ LoadData
    \/ Restart
    \/ \E i \in DOMAIN GoalTargets :
          CreateGoal(<<"G", ToString(nextId)>>, GoalTargets[i])
    \/ \E i \in DOMAIN goals : DeleteGoal(goals[i].id)
    \/ \E amount \in BillAmounts :
          AddBill(BillName(nextId), amount, 5, FALSE)
    \/ \E i \in DOMAIN bills : DeleteBill(bills[i].id)
    \/ \E c \in BudgetCategories : \E l \in LimitTexts : \E p \in BudgetPeriods :
          SetBudget(c, l, p)

SpecLists == InitLists /\ [][NextLists]_vars

\* the targets typed on the goals page, which takes any number, and the
\* amounts typed in the transaction form
EnteredTargets == {-100, 0, 400}
FormAmounts == {0, 400}

\* Goals of any target are created and paid into, from the goals page and
\* from the form (category Savings, a goal selected), one handler at a time.
NextTarget ==
    \/ LoadData
    \/ (pending = <<>> /\ \E target \in EnteredTargets :
            CreateGoal(<<"G", ToString(nextId)>>, target))
    \/ (pending = <<>> /\ \E i \in DOMAIN goals : \E a \in DepositAmounts :
            AddTransaction(Deposit(goals[i], a)))
    \/ (pending = <<>> /\ \E i \in DOMAIN goals : \E a \in FormAmounts :
            \E type \in {"expense", "income"} :
                AddTransaction(FormTransaction(<<>>, type, a, "Savings",
                                               ToISODate(now), goals[i].id)))
    \/ \E ok \in BOOLEAN : AddSettled(1, ok)

SpecTarget == InitLists /\ [][NextTarget]_vars

\* a session whose store holds bills, an income entered in an earlier session
\* that puts the balance above the threshold, and a budget for the bills'
\* category
InitFunded ==
    /\ now = InitNow
    /\ tz \in TimeZones
    /\ isLoading = TRUE
    /\ transactions = <<>>
    /\ bills = <<>>
    /\ goals = <<>>
    /\ budgets = <<>>
    /\ notifications = <<>>
    /\ pending = <<>>
    /\ \E n \in 1..MaxBills : \E bl \in BillLists(n) :
       \E a \in IncomeAmounts : \E limit \in BudgetLimits :
       \E period \in BudgetPeriods :
         stored = [EmptyStore EXCEPT
                     !.bills = bl,
                     !.transactions =
                         <<[id |-> MaxBills + 1, type |-> "income", amount |-> a,
                            description |-> <<"shop">>, category |-> "Salary",
                            date |-> ToISODate(InitNow) - 2,
                            createdAt |-> InitNow - 2 * DAY_MS,
                            goalId |-> NoId, billId |-> NoId,
                            isRecurring |-> FALSE]>>,
                     !.budgets = <<[category |-> "Bills", limit |-> limit,
                                    period |-> period]>>]
    /\ nextId = MaxBills + 2
    /\ loads = 0
    /\ paid = {}
    /\ ops = 0
    /\ last = NoLast

\* the sessions of the bill scheduler, over a funded store
SpecFunded == InitFunded /\ [][NextBill]_vars

\* a session with no bills whose store holds one goal never paid into
InitOverlap ==
    /\ now = InitNow
    /\ tz = 0
    /\ isLoading = TRUE
    /\ transactions = <<>>
    /\ bills = <<>>
    /\ goals = <<>>
    /\ budgets = <<>>
    /\ notifications = <<>>
    /\ pending = <<>>
    /\ stored = [EmptyStore EXCEPT !.goals = <<InitialGoals[Len(InitialGoals)]>>]
    /\ nextId = Len(GoalTargets) + 1
    /\ loads = 0
    /\ paid = {}
    /\ ops = 0
    /\ last = NoLast

\* Goal-linked transactions with handlers that overlap: a handler is called
\* while the store calls of earlier ones are outstanding (at most MaxPending
\* of them), and the calls settle in any order; goals are created in between.
NextOverlap ==
    \/ LoadData
    \/ CreateGoal(<<"G", ToString(nextId)>>, GoalTargets[Len(GoalTargets)])
    \/ (Len(pending) < MaxPending /\ \E i \in DOMAIN goals : \E a \in DepositAmounts :
            AddTransaction(Deposit(goals[i], a)))
    \/ (Len(pending) < MaxPending /\ \E i \in DOMAIN transactions :
            \E u \in GoalEdits(transactions[i]) : UpdateTransaction(u))
    \/ (Len(pending) < MaxPending /\ \E id \in DeletableIds : DeleteTransaction(id))
    \/ \E i \in DOMAIN pending : \E ok \in BOOLEAN : AddSettled(i, ok)
    \/ \E i \in DOMAIN pending : \E ok \in BOOLEAN : UpdateSettled(i, ok)
    \/ \E i \in DOMAIN pending : \E ok \in BOOLEAN : DeleteSettled(i, ok)

SpecOverlap == InitOverlap /\ [][NextOverlap]_vars

\* Goal-linked transactions, one handler at a time, every store call
\* resolving
NextResolved ==
    \/ LoadData
    \/ (pending = <<>> /\ \E i \in DOMAIN goals : \E a \in DepositAmounts :
            AddTransaction(Deposit(goals[i], a)))
    \/ (pending = <<>> /\ \E i \in DOMAIN transactions :
            \E u \in GoalEdits(transactions[i]) : UpdateTransaction(u))
    \/ (pending = <<>> /\ \E id \in DeletableIds : DeleteTransaction(id))
    \/ AddSettled(1, TRUE)
    \/ UpdateSettled(1, TRUE)
    \/ DeleteSettled(1, TRUE)

SpecResolved == InitGoal /\ [][NextResolved]_vars

\* The sessions of SpecPanel, with the reads of a started load settling: the
\* promise loadData awaits resolves or rejects, it does not stay pending.
SpecLoad == SpecPanel /\ WF_vars(LoadData \/ LoadDataFailed)

\* Passes of the scheduler only, over a funded store: the page is opened, and
\* opened again later
NextPass ==
    \/ LoadData
    \/ Restart
    \/ (isLoading /\ Tick)

\* the funded stores with a monthly budget
InitPass ==
    /\ InitFunded
    /\ stored.budgets[1].period = "monthly"

SpecPass == InitPass /\ [][NextPass]_vars

\* the transactions held by either store
Held == {stored.transactions[i] : i \in DOMAIN stored.transactions}
            \cup {stored.local[i] : i \in DOMAIN stored.local}

\* Calls of the transaction operations with the remote store up or down and
\* local storage working or not: new transactions are created, held ones
\* are edited (another amount) and deleted.
NextApi ==
    \/ LoadData
    \/ \E a \in ExpenseAmounts : \E up, works \in BOOLEAN :
          ApiCall("createTransaction",
                  FormTransaction(<<>>, "expense", a, "Food", ToISODate(now), NoId),
                  up, works)
    \/ \E t \in Held : \E a \in DepositAmounts : \E up, works \in BOOLEAN :
          ApiCall("updateTransaction",
                  FormTransaction(<<t>>, "expense", a, "Food", t.date, NoId),
                  up, works)
    \/ \E t \in Held : \E up, works \in BOOLEAN :
          ApiCall("deleteTransaction", t, up, works)

SpecApi == InitLists /\ [][NextApi]_vars

----------------------------------------------------------------------------
(* Properties of the bill scheduler, read off the state a pass leaves.      *)
(* last holds what loadData read (bills, transactions, notifications), the  *)
(* instant of the pass (today) and what the pass computed.                  *)

PassDone == last.op = "loadData" /\ last.ok

\* the notifications the last handler put in front of the list it found
LastEmitted == Emitted(last.notifications, notifications)

\* the calendar date, as a date string, of the user's current day
LocalToday == LocalDay(last.today, tz)

\* a date string names a day of the calendar month the pass runs in
InCurrentMonth(date) ==
    /\ date # NoDate
    /\ Civil(date).month = GetMonth(last.today, tz)
    /\ Civil(date).year = GetFullYear(last.today, tz)

SameLocalMonth(t1, t2) ==
    /\ GetMonth(t1, tz) = GetMonth(t2, tz)
    /\ GetFullYear(t1, tz) = GetFullYear(t2, tz)

\* positions of the synthesized transactions linked to bill b
PaymentsFor(b) ==
    {j \in DOMAIN last.newTransactions : last.newTransactions[j].billId = b.id}

\* auto-pay on, not paid in the current month, due day reached
QualifiesForAutoPay(b) ==
    /\ b.autoPay
    /\ ~InCurrentMonth(b.lastPaidDate)
    /\ b.dueDateDay <= GetDate(last.today, tz)

\* what a pass does for the bill at position i, the payment dated `date`
AutoPayOutcome(i, date) ==
    LET b == last.bills[i]
    IN  IF QualifiesForAutoPay(b)
        THEN /\ Cardinality(PaymentsFor(b)) = 1
             /\ \A j \in PaymentsFor(b) :
                  /\ last.newTransactions[j].type = "expense"
                  /\ last.newTransactions[j].amount = b.amount
                  /\ last.newTransactions[j].isRecurring
                  /\ last.newTransactions[j].date = date
             /\ bills[i].lastPaidDate = date
             /\ \E k \in DOMAIN LastEmitted :
                  /\ LastEmitted[k].title = "Bill Paid Automatically"
                  /\ LastEmitted[k].type = "info"
                  /\ Includes(LastEmitted[k].message, b.name)
        ELSE PaymentsFor(b) = {}

AutoPayPass(date) ==
    /\ Len(bills) = Len(last.bills)
    /\ \A i \in DOMAIN last.bills : AutoPayOutcome(i, date)
    /\ transactions = last.newTransactions \o last.transactions
    /\ CountTitled(LastEmitted, "Bill Paid Automatically")
         = Cardinality({i \in DOMAIN last.bills : QualifiesForAutoPay(last.bills[i])})

\* C1: in one runBillLogic pass every bill with autoPay, not paid in the
\* current month and with dueDateDay <= today's day-of-month gets exactly one
\* new expense transaction (amount = bill.amount, billId = bill.id,
\* isRecurring, date = today), its lastPaidDate becomes today, one info
\* notification "Bill Paid Automatically" is emitted for it, and no other
\* bill gets a transaction.
C1_AutoPayDatedToday == PassDone => AutoPayPass(LocalToday)

\* The same pass with the payment dated as the code dates it, by the UTC
\* calendar date of the instant, on a first pass (no bill paid before).
AutoPayDatedUTC ==
    (PassDone /\ loads = 1) => AutoPayPass(ToISODate(last.today))

\* C2: auto-pay is idempotent within a calendar month: a pass run on the
\* bill list an earlier pass produced, in the same month, creates no payment
\* for a bill the earlier pass auto-paid and does not change that bill.
C2_AutoPayIdempotent ==
    PassDone =>
        \A i \in DOMAIN last.bills :
            (\E p \in paid : /\ p.billId = last.bills[i].id
                             /\ p.pass < loads
                             /\ SameLocalMonth(p.at, last.today))
            => /\ PaymentsFor(last.bills[i]) = {}
               /\ bills[i] = last.bills[i]

\* the notification list read at load time mentions the bill's name in an
\* entry created less than 24 hours before the pass
RecentlyMentioned(b) ==
    \E k \in DOMAIN last.notifications :
        /\ Includes(last.notifications[k].message, b.name)
        /\ last.today - last.notifications[k].date < DAY_MS

\* auto-pay off, not paid in the current month, due in 0..3 days, no recent mention
WantsReminder(b) ==
    /\ ~b.autoPay
    /\ ~InCurrentMonth(b.lastPaidDate)
    /\ b.dueDateDay - GetDate(last.today, tz) \in 0..3
    /\ ~RecentlyMentioned(b)

\* C3: in one pass every bill with autoPay = false, not paid in the current
\* month and 0 <= dueDateDay - today <= 3 gets exactly one warning
\* notification "Bill Due Soon", unless the list read at load time mentions
\* the bill's name in an entry younger than 24 hours; no other bill gets one.
C3_DueSoonReminder ==
    PassDone =>
        /\ CountTitled(LastEmitted, "Bill Due Soon")
             = Cardinality({i \in DOMAIN last.bills : WantsReminder(last.bills[i])})
        /\ \A i \in DOMAIN last.bills :
             WantsReminder(last.bills[i]) =>
                \E k \in DOMAIN LastEmitted :
                    /\ LastEmitted[k].title = "Bill Due Soon"
                    /\ LastEmitted[k].type = "warning"
                    /\ LastEmitted[k].message
                         = ReminderNotif(last.bills[i], last.today, tz).msg
        /\ \A k \in DOMAIN LastEmitted :
             LastEmitted[k].title = "Bill Due Soon" => LastEmitted[k].type = "warning"

----------------------------------------------------------------------------
(* Properties of the transaction handlers, read off the state a settled     *)
(* handler leaves.  last holds the handler's argument (t), the transaction  *)
(* it found (original), whether the store call resolved (ok) and the lists  *)
(* as they were when the call settled.                                      *)

AddDone == last.op = "add"

\* the store call of a bill payment synthesized by the last pass rejected
SchedulerCreateRejected == PassDone /\ last.rejected # {}

CountAlerts(list) == Cardinality({i \in DOMAIN list : list[i].type = "alert"})

\* C9: when a transaction-store call fails the optimistic change to the
\* transaction list is kept, exactly one alert notification is surfaced for
\* the failure and the call is not retried (the store does not get the
\* transaction); this holds for the user's create calls and for the create
\* calls the bill scheduler issues for the payments it synthesized.
C9_StoreFailureAlerted ==
    /\ (AddDone /\ ~last.ok) =>
          /\ transactions = last.transactions
          /\ \E k \in DOMAIN transactions : transactions[k] = last.t
          /\ CountAlerts(LastEmitted) = 1
          /\ \A k \in DOMAIN stored.transactions : stored.transactions[k].id # last.t.id
    /\ PassDone =>
          /\ transactions = last.newTransactions \o last.transactions
          /\ CountAlerts(LastEmitted) = Cardinality(last.rejected)
          /\ \A k \in DOMAIN stored.transactions :
                stored.transactions[k].id \notin last.rejected

\* The user's part of it, for every handler: a rejected create, update or
\* delete keeps the list as the handler left it and surfaces one alert
\* titled "Error" and nothing else.
UserStoreFailureAlerted ==
    (last.op \in {"add", "update", "delete"} /\ ~last.ok) =>
        /\ transactions = last.transactions
        /\ Len(LastEmitted) = 1
        /\ LastEmitted[1].title = "Error"
        /\ LastEmitted[1].type = "alert"
        /\ goals = last.goals
        /\ bills = last.bills

----------------------------------------------------------------------------
(* Goal milestones and goal amounts *)

\* the amount is at least k percent of the target (targets are positive)
AtPercent(g, k) == g.currentAmount * 100 >= k * g.targetAmount

\* the goal went from below k percent to at least k percent
Crosses(before, after, k) == ~AtPercent(before, k) /\ AtPercent(after, k)

\* "Halfway There!" entries of the list that name goal g
HalfwayFor(list, g) ==
    Cardinality({k \in DOMAIN list : /\ list[k].title = "Halfway There!"
                                     /\ Includes(list[k].message, g.name)})

\* C4: over goal-linked deposits added one after another, "Halfway There!"
\* is emitted only by the deposit that takes the goal from below 50 percent
\* of its target to at least 50 percent, and once; it is emitted by every
\* such deposit that stays below 100 percent; a deposit that finds the goal
\* at or above 50 percent emits none.
C4_HalfwayOncePerCrossing ==
    (AddDone /\ last.t.goalId # NoId) =>
        /\ Len(goals) = Len(last.goals)
        /\ \A i \in DOMAIN goals :
             LET n == HalfwayFor(LastEmitted, goals[i])
             IN  /\ n <= 1
                 /\ (n = 1) => /\ Crosses(last.goals[i], goals[i], 50)
                               /\ last.t.goalId = goals[i].id
                 /\ (/\ Crosses(last.goals[i], goals[i], 50)
                     /\ ~Crosses(last.goals[i], goals[i], 100)) => n = 1

\* a deposit that raised a goal already past the half emitted nothing, the
\* list holding the one "Halfway There!" of the earlier crossing
C4_KeptAboveHalf ==
    /\ AddDone /\ last.ok
    /\ \E i \in DOMAIN goals :
         /\ last.t.goalId = goals[i].id
         /\ AtPercent(last.goals[i], 50)
         /\ goals[i].currentAmount > last.goals[i].currentAmount
         /\ ~AtPercent(goals[i], 100)
         /\ HalfwayFor(LastEmitted, goals[i]) = 0
         /\ HalfwayFor(notifications, goals[i]) = 1

DeleteDone == last.op = "delete"

\* the deleted transaction was listed, an expense, and linked to goal g
DeletedFrom(g) ==
    /\ last.original # <<>>
    /\ last.original[1].type = "expense"
    /\ last.original[1].goalId = g.id

\* what deletion does to the goals when `adjusted` says the goals are adjusted
DeleteOutcome(adjusted) ==
    /\ Len(goals) = Len(last.goals)
    /\ \A i \in DOMAIN goals :
         goals[i] = IF adjusted /\ DeletedFrom(last.goals[i])
                    THEN [last.goals[i] EXCEPT !.currentAmount =
                            IF @ >= last.original[1].amount
                            THEN @ - last.original[1].amount ELSE 0]
                    ELSE last.goals[i]

C7_DeletedTwice ==
    /\ DeleteDone /\ last.ok
    /\ last.original = <<>>
    /\ \E i \in DOMAIN goals : goals[i].currentAmount > 0

UpdateDone == last.op = "update"

\* what transaction t contributes to goal g
Contribution(t, g) == IF t.goalId = g.id /\ t.type = "expense" THEN t.amount ELSE 0

\* what an edit does to the goals when `adjusted` says the goals are adjusted
UpdateOutcome(adjusted) ==
    /\ Len(goals) = Len(last.goals)
    /\ last.original # <<>>
    /\ \A i \in DOMAIN goals :
         LET g == last.goals[i]
             net == g.currentAmount - Contribution(last.original[1], g)
                      + Contribution(last.t, g)
         IN  goals[i] = IF adjusted
                        THEN [g EXCEPT !.currentAmount = IF net >= 0 THEN net ELSE 0]
                        ELSE g

----------------------------------------------------------------------------
(* Alerts on added transactions *)

\* the list before the added transaction was put in front of it
ListBefore == Tail(last.transactions)

\* the period of a budget that the date string falls in: its first day
PeriodStart(date, period) ==
    IF period = "weekly" THEN date - GetDay(ParseDate(date), 0)
    ELSE date - (Civil(date).date - 1)

\* the expenses of the added transaction's category in the budget period the
\* added transaction is dated in
PeriodSpend(list, period) ==
    SumAmounts(list, LAMBDA t : /\ t.type = "expense"
                                /\ t.category = last.t.category
                                /\ PeriodStart(t.date, period)
                                     = PeriodStart(last.t.date, period))

\* C5: for expenses of a budgeted category added one after another, "Budget
\* Exceeded" is emitted, once, by exactly the expense for which the period's
\* category spend with it exceeds the limit while the spend without it did
\* not; the month for a monthly budget, the week from Sunday for a weekly one.
C5_BudgetExceededOncePerCrossing ==
    (AddDone /\ last.ok /\ last.t.type = "expense") =>
        \A i \in DOMAIN last.budgets :
            last.budgets[i].category = last.t.category =>
                LET spend == PeriodSpend(last.transactions, last.budgets[i].period)
                IN  CountTitled(LastEmitted, "Budget Exceeded")
                      = IF /\ spend > last.budgets[i].limit
                           /\ spend - last.t.amount <= last.budgets[i].limit
                        THEN 1 ELSE 0

C6_AlreadyLow ==
    /\ AddDone /\ last.ok
    /\ last.t.type = "expense"
    /\ ListBefore # <<>>
    /\ Balance(ListBefore) < LOW_BALANCE_THRESHOLD

\* C10: checkAlerts runs for every added transaction whether or not the
\* create call succeeded: the income, goal milestone, low-balance and
\* budget-exceeded notifications the transaction warrants are emitted.
C10_AlertsDespiteFailure ==
    AddDone =>
        \A n \in {CheckAlerts(last.t, ListBefore, last.goals, last.budgets, tz)[k] :
                    k \in DOMAIN CheckAlerts(last.t, ListBefore, last.goals,
                                             last.budgets, tz)} :
            \E j \in DOMAIN LastEmitted :
                /\ LastEmitted[j].title = n.title
                /\ LastEmitted[j].message = n.msg
                /\ LastEmitted[j].type = n.type

\* The evaluation when the create call resolved: what the transaction
\* warrants is emitted.
AlertsWhenCreated == (AddDone /\ last.ok) => C10_AlertsDespiteFailure

----------------------------------------------------------------------------
(* Ordering of the scheduler pass and the user's handlers *)

\* a step of a transaction handler: one is started or one continues after its await
HandlerStep == ops' # ops \/ pending' # pending

\* the state after the step is the one a completed pass leaves: the
\* synthesized transactions ahead of the ones read, the bills as the pass
\* returned them, the notifications of the pass ahead of the ones read
PassApplied ==
    /\ last'.op = "loadData" /\ last'.ok
    /\ \E r \in {RunBillLogic(last'.bills, last'.notifications, now, tz, nextId)} :
          /\ transactions' = r.newTransactions \o last'.transactions
          /\ bills' = r.updatedBills
          /\ notifications' = PushAll(last'.notifications, r.notifsToAdd, r.id, now)

\* the state after the step is the one a failed load leaves: nothing set, the
\* scheduler not run
LoadAbandoned ==
    /\ last'.op = "loadData" /\ ~last'.ok
    /\ transactions' = <<>>
    /\ bills' = <<>>

\* C11, as stated: no transaction handler runs while isLoading is true, and
\* isLoading becomes false only in the step in which a whole scheduler pass
\* has been applied to transactions, bills and notifications.
C11_PassBeforeHandlers ==
    [][/\ HandlerStep => (~isLoading /\ ~isLoading' /\ loads >= 1)
       /\ (isLoading /\ ~isLoading') => PassApplied]_vars

\* C11, amended: no transaction handler runs while isLoading is true, and
\* isLoading becomes false either in the step in which a whole scheduler pass
\* has been applied, or, when a read threw, with the scheduler not run at
\* all; a pass never overlaps a handler.
C11_LoadBeforeHandlers ==
    [][/\ HandlerStep => (~isLoading /\ ~isLoading' /\ loads >= 1)
       /\ (isLoading /\ ~isLoading') => (PassApplied \/ LoadAbandoned)
       /\ (isLoading \/ isLoading') => (pending = <<>> /\ pending' = <<>>)]_vars

\* a handler has run in a session whose pass paid a bill
C11_HandledAfterPass ==
    /\ last.op = "add"
    /\ ~isLoading
    /\ \E p \in paid : p.pass = loads

----------------------------------------------------------------------------
(* The notification list *)

\* the last operation created notifications (a load, or a settled handler)
Creating == last.op \in {"loadData", "add", "update", "delete"}

\* newest first by timestamp
NewestFirst(list) ==
    \A i, j \in DOMAIN list : i < j => list[i].date >= list[j].date

\* C12: pushNotification only prepends: after the notifications an operation
\* creates, the list is the new entries (read = false, timestamp = now)
\* followed by the previous list, unchanged and in the same order; the list
\* is always ordered most recent first and ids are not reused.
C12_PushPrepends ==
    /\ Creating =>
          /\ Len(notifications) >= Len(last.notifications)
          /\ notifications = LastEmitted \o last.notifications
          /\ \A k \in DOMAIN LastEmitted :
                /\ ~LastEmitted[k].read
                /\ LastEmitted[k].date = last.today
                /\ LastEmitted[k].date = now
    /\ NewestFirst(notifications)
    /\ \A i, j \in DOMAIN notifications :
          notifications[i].id = notifications[j].id => i = j

\* a notification was created in front of a list that holds an entry
\* already read and an unread one
C12_PushedOntoRead ==
    /\ Creating
    /\ LastEmitted # <<>>
    /\ \E k \in DOMAIN last.notifications : last.notifications[k].read
    /\ \E k \in DOMAIN last.notifications : ~last.notifications[k].read

\* C13: markNotificationsRead sets read = true on every entry and changes
\* nothing else (same entries, same order, same id, type, title, message and
\* date); clearNotifications leaves the list empty; the list gets shorter
\* only by becoming empty, through clearNotifications or when the page is
\* opened anew.
C13_MarkAndClear ==
    [][/\ last'.op = "markRead" =>
            /\ Len(notifications') = Len(last'.notifications)
            /\ \A k \in DOMAIN notifications' :
                  /\ notifications'[k].read
                  /\ notifications'[k].id = last'.notifications[k].id
                  /\ notifications'[k].type = last'.notifications[k].type
                  /\ notifications'[k].title = last'.notifications[k].title
                  /\ notifications'[k].message = last'.notifications[k].message
                  /\ notifications'[k].date = last'.notifications[k].date
       /\ last'.op = "clear" => notifications' = <<>>
       /\ Len(notifications') < Len(notifications) =>
            /\ notifications' = <<>>
            /\ last'.op = "clear" \/ isLoading']_vars

\* several entries, some unread, have just been marked read
C13_Marked ==
    /\ last.op = "markRead"
    /\ Len(notifications) >= 2
    /\ \E k \in DOMAIN last.notifications : ~last.notifications[k].read
    /\ \E k \in DOMAIN last.notifications : last.notifications[k].read

\* a list of several entries has just been cleared
C13_Cleared ==
    /\ last.op = "clear"
    /\ Len(last.notifications) >= 2

----------------------------------------------------------------------------
(* Saved collections *)

Elements(seq) == {seq[i] : i \in DOMAIN seq}

\* C14: saving a bill, goal or budget collection replaces the stored one:
\* after a save of list L the store holds exactly the elements of L, so an
\* element removed from the in-memory list, or the saving of an empty list,
\* leaves no such element in the store for the next load.
C14_SaveReplaces ==
    /\ last.op = "setGoals" => Elements(stored.goals) = Elements(goals)
    /\ last.op = "setBills" => Elements(stored.bills) = Elements(bills)
    /\ last.op = "setBudgets" => Elements(stored.budgets) = Elements(budgets)

\* What the saves do keep: every element of the saved list is in the store.
SaveKeepsSaved ==
    /\ last.op = "setGoals" => Elements(goals) \subseteq Elements(stored.goals)
    /\ last.op = "setBills" => Elements(bills) \subseteq Elements(stored.bills)
    /\ last.op = "setBudgets" => Elements(budgets) \subseteq Elements(stored.budgets)

----------------------------------------------------------------------------
(* Income confirmation *)

\* the "Income Received" entries the last handler emitted
IncomeReceived == SelectSeq(LastEmitted, LAMBDA n : n.title = "Income Received")

----------------------------------------------------------------------------
(* The window of a budget *)

\* the expenses of the added transaction's category dated on or after the
\* first day of the budget period the added transaction is dated in: the
\* most recent Sunday for a weekly budget, the first of the month for a
\* monthly one
WindowSpend(list, period) ==
    SumAmounts(list, LAMBDA t : /\ t.type = "expense"
                                /\ t.category = last.t.category
                                /\ t.date >= PeriodStart(last.t.date, period))

\* C16: the budget-exceeded evaluation of an added expense sums the
\* category's expenses from the most recent Sunday when the budget is weekly
\* and from the first of the month when it is monthly: "Budget Exceeded" is
\* emitted when that sum exceeds the limit with the expense and did not
\* without it, so an expense dated before the Sunday does not count toward a
\* weekly crossing.
C16_WindowFollowsPeriod ==
    (AddDone /\ last.ok /\ last.t.type = "expense") =>
        \A i \in DOMAIN last.budgets :
            last.budgets[i].category = last.t.category =>
                LET spent == WindowSpend(last.transactions, last.budgets[i].period)
                IN  (CountTitled(LastEmitted, "Budget Exceeded") = 1)
                      <=> /\ spent > last.budgets[i].limit
                          /\ spent - last.t.amount <= last.budgets[i].limit

----------------------------------------------------------------------------
(* The two goal milestones *)

\* the goal as the added transaction's amount would leave it
WithAmount(g) == [g EXCEPT !.currentAmount = @ + last.t.amount]

\* the milestone entries the last handler emitted
Milestones ==
    SelectSeq(LastEmitted,
              LAMBDA n : n.title \in {"Goal Completed!", "Halfway There!"})

C17_CompletedFromHalf ==
    /\ AddDone /\ last.ok
    /\ \E i \in DOMAIN last.goals :
         /\ last.goals[i].id = last.t.goalId
         /\ AtPercent(last.goals[i], 50)
         /\ ~AtPercent(last.goals[i], 100)
         /\ AtPercent(WithAmount(last.goals[i]), 100)
    /\ CountTitled(LastEmitted, "Goal Completed!") = 1

----------------------------------------------------------------------------
(* Goals without a positive target *)

\* C18: a goal whose targetAmount is zero or negative has no percentage:
\* adding a transaction linked to it ends as any other add (the expense is
\* added to the goal's amount, nothing is raised) and emits neither "Goal
\* Completed!" nor "Halfway There!", whatever the goal's amount and the
\* transaction's amount are.
C18_NoPercentNoMilestone ==
    (AddDone /\ last.t.goalId # NoId) =>
        \A i \in DOMAIN last.goals :
            (last.goals[i].id = last.t.goalId /\ last.goals[i].targetAmount <= 0) =>
                /\ Milestones = <<>>
                /\ (last.ok /\ last.t.type = "expense")
                     => goals[i] = WithAmount(last.goals[i])
                /\ (last.ok /\ last.t.type = "income") => goals[i] = last.goals[i]

\* a second deposit into a goal of target zero went through without a
\* milestone
C18_PaidIntoZeroTarget ==
    /\ AddDone /\ last.ok
    /\ \E i \in DOMAIN last.goals :
         /\ last.goals[i].id = last.t.goalId
         /\ last.goals[i].targetAmount = 0
         /\ last.goals[i].currentAmount > 0
         /\ goals[i].currentAmount > last.goals[i].currentAmount
    /\ Milestones = <<>>

\* a deposit into a goal of negative target went through without a milestone
C18_PaidIntoNegativeTarget ==
    /\ AddDone /\ last.ok
    /\ \E i \in DOMAIN last.goals :
         /\ last.goals[i].id = last.t.goalId
         /\ last.goals[i].targetAmount < 0
         /\ goals[i].currentAmount > last.goals[i].currentAmount
    /\ Milestones = <<>>

----------------------------------------------------------------------------
(* Bill payments and lastPaidDate *)

\* the most recent listed payment of bill b, 0 if none is listed
LatestPayment(b) == FirstIndex(transactions, LAMBDA t : t.billId = b.id)

\* C19: once a handler or a pass has finished, every bill with a payment in
\* the transaction list, made by hand or by the scheduler, has the date of
\* its most recent listed payment as lastPaidDate, also when the create call
\* of a payment made by hand rejected.
C19_PaymentDatesBill ==
    (~isLoading /\ pending = <<>>) =>
        \A i \in DOMAIN bills :
            LatestPayment(bills[i]) # 0 =>
                bills[i].lastPaidDate = transactions[LatestPayment(bills[i])].date

\* What holds of payments made by hand: the bill is dated when the create
\* call resolved, and left as it was when the call rejected.
PaymentDatesBillWhenCreated ==
    (AddDone /\ last.t.billId # NoId) =>
        \A i \in DOMAIN bills :
            bills[i].id = last.t.billId =>
                bills[i].lastPaidDate = IF last.ok THEN last.t.date
                                        ELSE last.bills[i].lastPaidDate

----------------------------------------------------------------------------
(* Alerts on the scheduler's payments *)

\* the list the k-th payment synthesized by the last pass was added to: the
\* loaded transactions and, in front of them, the payments synthesized
\* before it
ListBeforePayment(k) ==
    Reverse(SubSeq(last.newTransactions, 1, k - 1)) \o last.transactions

\* the low-balance and budget alerts the evaluator gives for the k-th payment
\* synthesized by the last pass
PaymentAlerts(k) ==
    BalanceAlerts(last.newTransactions[k], ListBeforePayment(k))
        \o BudgetAlerts(last.newTransactions[k], ListBeforePayment(k), budgets, tz)

\* C20: the alert evaluator is applied to every transaction the scheduler
\* synthesizes, in the order of the bill list: an automatic payment that
\* takes the balance from the threshold or above to below it is followed by
\* "Low Balance Warning", and one that takes the spend of its category across
\* the budget limit by "Budget Exceeded", among the notifications of the pass.
C20_PassEvaluatesPayments ==
    PassDone =>
        \A k \in DOMAIN last.newTransactions :
            \A a \in DOMAIN PaymentAlerts(k) :
                \E j \in DOMAIN LastEmitted :
                    /\ LastEmitted[j].title = PaymentAlerts(k)[a].title
                    /\ LastEmitted[j].type = PaymentAlerts(k)[a].type

\* What the pass does emit: reminders and payment confirmations only.
PassEmitsNoAlert ==
    PassDone => \A j \in DOMAIN LastEmitted : LastEmitted[j].type # "alert"

----------------------------------------------------------------------------
(* A pass with nothing to do *)

\* C21: a scheduler pass in which no bill qualifies for auto-pay (auto-pay
\* on, not paid in the current month, due day reached) and none for a
\* due-soon reminder has no side effects: the transaction, bill and
\* notification lists are as loaded and no createTransaction, saveBills or
\* saveNotifications call is issued, the store staying as it was.
C21_QuietPassNoEffects ==
    (/\ PassDone
     /\ \A i \in DOMAIN last.bills :
          /\ ~QualifiesForAutoPay(last.bills[i])
          /\ ~WantsReminder(last.bills[i]))
    => /\ transactions = last.transactions
       /\ bills = last.bills
       /\ notifications = last.notifications
       /\ last.writes = {}
       /\ stored = last.store

\* The same with the tests the scheduler itself makes.
QuietPassByItsOwnTests ==
    (/\ PassDone
     /\ \A i \in DOMAIN last.bills :
          /\ ~AutoPayDue(last.bills[i], last.today, tz)
          /\ ~ReminderDue(last.bills[i], last.notifications, last.today, tz))
    => /\ transactions = last.transactions
       /\ bills = last.bills
       /\ notifications = last.notifications
       /\ last.writes = {}
       /\ stored = last.store

\* a pass over a store with bills, none of them due for anything, left
\* everything as it was
C21_QuietPass ==
    /\ PassDone
    /\ last.bills # <<>>
    /\ \A i \in DOMAIN last.bills :
         /\ ~QualifiesForAutoPay(last.bills[i])
         /\ ~WantsReminder(last.bills[i])
    /\ \E i \in DOMAIN last.bills : last.bills[i].lastPaidDate # NoDate
    /\ last.writes = {}
    /\ stored = last.store

----------------------------------------------------------------------------
(* The budget list *)

OnePerCategory(bgs) ==
    \A i, j \in DOMAIN bgs : bgs[i].category = bgs[j].category => i = j

\* C22: after any sequence of handleSetBudget calls the budget list holds at
\* most one budget per category, each with limit > 0; a call with limit 0 or
\* with a text that is no number removes the category's budget and leaves
\* the budgets of the other categories as they were.
C22_BudgetListWellFormed ==
    /\ OnePerCategory(budgets)
    /\ \A i \in DOMAIN budgets : budgets[i].limit > 0
    /\ OnePerCategory(stored.budgets)
    /\ \A i \in DOMAIN stored.budgets : stored.budgets[i].limit > 0
    /\ (last.op = "setBudgets" /\ last.limitStr \in {"", "0"}) =>
          budgets = SelectSeq(last.budgets, LAMBDA b : b.category # last.category)
    /\ (last.op = "setBudgets" /\ last.limitStr \notin {"", "0"}) =>
          /\ \E i \in DOMAIN budgets :
                /\ budgets[i].category = last.category
                /\ budgets[i].period = last.period
                /\ <<budgets[i].limit>> = ParseFloat(last.limitStr)
          /\ SelectSeq(budgets, LAMBDA b : b.category # last.category)
               = SelectSeq(last.budgets, LAMBDA b : b.category # last.category)

\* a category's budget was removed by entering 0 or nothing, the budget of
\* another category staying
C22_RemovedOneOfTwo ==
    /\ last.op = "setBudgets"
    /\ last.limitStr \in {"", "0"}
    /\ Len(last.budgets) = 2
    /\ Len(budgets) = 1
    /\ budgets[1].category # last.category

\* a category's budget was replaced by one of another limit
C22_Replaced ==
    /\ last.op = "setBudgets"
    /\ \E i \in DOMAIN last.budgets :
         /\ last.budgets[i].category = last.category
         /\ <<last.budgets[i].limit>> # ParseFloat(last.limitStr)
    /\ Len(budgets) = Len(last.budgets)

----------------------------------------------------------------------------
(* Due days past the end of the month *)

\* the bill's due day does not exist in the month the last pass ran in
DueDayBeyondMonth(b) ==
    b.dueDateDay > DaysInMonth(GetFullYear(last.today, tz), GetMonth(last.today, tz))

\* C23: a bill whose due day exceeds the number of days of the current month
\* (31 in a 30-day month) and that is not paid this month is past due for
\* the rest of the month: with auto-pay on, a pass run on any day of that
\* month, the last included, pays it.
C23_DueDayBeyondMonthPaid ==
    PassDone =>
        \A i \in DOMAIN last.bills :
            (/\ last.bills[i].autoPay
             /\ DueDayBeyondMonth(last.bills[i])
             /\ ~InCurrentMonth(last.bills[i].lastPaidDate))
            => /\ PaymentsFor(last.bills[i]) # {}
               /\ bills[i].lastPaidDate # NoDate

\* What the scheduler does with such a bill: nothing, on any day of the month.
DueDayBeyondMonthNeverPaid ==
    PassDone =>
        \A i \in DOMAIN last.bills :
            DueDayBeyondMonth(last.bills[i]) =>
                /\ PaymentsFor(last.bills[i]) = {}
                /\ bills[i] = last.bills[i]

----------------------------------------------------------------------------
(* Goal amounts under overlapping handlers *)

\* C24: with transactions of non-negative amounts, the currentAmount of every
\* goal is >= 0 in every reachable state, whatever the sequence and the
\* interleaving of addTransaction, handleUpdateTransaction, deleteTransaction
\* and goal creation, in memory and in the store.
C24_GoalAmountsNonNegative ==
    /\ \A i \in DOMAIN goals : goals[i].currentAmount >= 0
    /\ \A i \in DOMAIN stored.goals : stored.goals[i].currentAmount >= 0
    /\ \A k \in DOMAIN pending : \A i \in DOMAIN pending[k].goals :
         pending[k].goals[i].currentAmount >= 0

\* a handler that ran over another one took more from a goal than the goal
\* held, and the goal was left at zero
C24_FlooredUnderOverlap ==
    /\ last.op \in {"update", "delete"}
    /\ last.ok
    /\ last.original # <<>>
    /\ last.closureGoals # last.goals
    /\ \E i \in DOMAIN last.closureGoals :
         /\ last.original[1].goalId = last.closureGoals[i].id
         /\ last.original[1].type = "expense"
         /\ last.closureGoals[i].currentAmount < last.original[1].amount
         /\ i \in DOMAIN goals
         /\ goals[i].currentAmount = 0

----------------------------------------------------------------------------
(* Goal amounts and the listed transactions *)

\* the amounts of the listed expenses linked to goal g
LinkedExpenses(g) ==
    SumAmounts(transactions, LAMBDA t : t.type = "expense" /\ t.goalId = g.id)

\* C25: with goals starting at 0 and never deleted, every store call
\* resolving and each add, edit and delete finishing before the next starts,
\* the currentAmount of every goal is the sum of the amounts of the listed
\* expense transactions linked to it.
C25_GoalAmountIsLinkedSum ==
    (~isLoading /\ pending = <<>>) =>
        \A i \in DOMAIN goals : goals[i].currentAmount = LinkedExpenses(goals[i])

\* a deposit was deleted and the goal still holds the other deposits
C25_DeletedOneOfSeveral ==
    /\ DeleteDone /\ last.ok
    /\ \E i \in DOMAIN goals :
         /\ DeletedFrom(last.goals[i])
         /\ goals[i].currentAmount > 0
         /\ goals[i].currentAmount < last.goals[i].currentAmount
         /\ goals[i].currentAmount = LinkedExpenses(goals[i])

\* a deposit was moved from one goal to another
C25_MovedBetweenGoals ==
    /\ UpdateDone /\ last.ok
    /\ last.original # <<>>
    /\ last.original[1].goalId # NoId
    /\ last.t.goalId # NoId
    /\ last.t.goalId # last.original[1].goalId
    /\ last.t.type = "expense"

----------------------------------------------------------------------------
(* Overlapping adds *)

\* C26: no update is lost when a goal-linked addTransaction is started
\* before the create call of an earlier one has resolved: when each
\* completes, its amount is added to what the goal holds by then, so that
\* after both the goal holds the initial amount plus both amounts; and the
\* milestone it notifies is the one the goal's amount by then warrants, so
\* that no crossing is notified twice.
C26_NoLostUpdate ==
    (AddDone /\ last.ok /\ last.t.goalId # NoId /\ last.t.type = "expense") =>
        \A i \in DOMAIN last.goals :
            last.goals[i].id = last.t.goalId =>
                /\ i \in DOMAIN goals
                /\ goals[i].currentAmount
                     = last.goals[i].currentAmount + last.t.amount
                /\ CountTitled(LastEmitted, "Halfway There!")
                     = CountTitled(GoalAlerts(last.t, last.goals), "Halfway There!")

\* What holds of an add that overlapped another: its amount is added to the
\* goal as the handler's closure held it.
AddWritesFromClosure ==
    (AddDone /\ last.ok /\ last.t.goalId # NoId /\ last.t.type = "expense") =>
        \A i \in DOMAIN last.closureGoals :
            last.closureGoals[i].id = last.t.goalId =>
                /\ i \in DOMAIN goals
                /\ goals[i].currentAmount
                     = last.closureGoals[i].currentAmount + last.t.amount

----------------------------------------------------------------------------
(* The end of a load *)

\* the last load ended in the catch branch
LoadFailed == last.op = "loadData" /\ ~last.ok

\* what a load whose read threw leaves: no pass, the lists and the stored
\* bills and transactions as they were, one "Connection Error" alert
FailedLoadOutcome ==
    /\ ~isLoading
    /\ last.newTransactions = <<>>
    /\ last.notifsToAdd = <<>>
    /\ bills = last.bills
    /\ transactions = last.transactions
    /\ stored.bills = last.store.bills
    /\ stored.transactions = last.store.transactions
    /\ Len(LastEmitted) = 1
    /\ LastEmitted[1].title = "Connection Error"
    /\ LastEmitted[1].type = "alert"

\* C27: loading always ends: on every path through loadData, the reads
\* resolving or one of them throwing, isLoading becomes false; when a read
\* threw, the scheduler did not run, no bill and no transaction is changed
\* and one alert notification titled "Connection Error" is emitted.
C27_LoadingEnds ==
    /\ isLoading ~> ~isLoading
    /\ [](LoadFailed => FailedLoadOutcome)

\* a load failed over a store that holds a bill the scheduler would have paid
C27_FailedOverDueBill ==
    /\ LoadFailed
    /\ ~isLoading
    /\ bills = <<>>
    /\ \E i \in DOMAIN stored.bills : AutoPayDue(stored.bills[i], now, tz)
    /\ notifications[1].title = "Connection Error"

----------------------------------------------------------------------------
(* What a pass leaves alone *)

\* the position in the loaded bill list of the bill transaction t pays
BillPosition(t) == FirstIndex(last.bills, LAMBDA b : b.id = t.billId)

\* C28: a scheduler pass changes only what auto-pay requires: the bill list
\* keeps its length, order and ids; the only field changed is lastPaidDate,
\* and only on bills the pass auto-paid, a bill without auto-pay being
\* returned as it was; every transaction already listed is kept as it was;
\* and the synthesized transactions stand in bill-list order ahead of them.
C28_PassFrame ==
    PassDone =>
        /\ Len(bills) = Len(last.bills)
        /\ \A i \in DOMAIN last.bills :
             /\ bills[i] = [last.bills[i] EXCEPT !.lastPaidDate = bills[i].lastPaidDate]
             /\ bills[i] # last.bills[i] =>
                   /\ last.bills[i].autoPay
                   /\ PaymentsFor(last.bills[i]) # {}
             /\ ~last.bills[i].autoPay => bills[i] = last.bills[i]
        /\ transactions = last.newTransactions \o last.transactions
        /\ \A j, k \in DOMAIN last.newTransactions :
             j < k => BillPosition(last.newTransactions[j])
                        < BillPosition(last.newTransactions[k])
        /\ \A j \in DOMAIN last.newTransactions :
             BillPosition(last.newTransactions[j]) # 0

\* a pass paid two bills and put the payments, in bill order, ahead of a
\* transaction listed before
C28_TwoPaidAheadOfListed ==
    /\ PassDone
    /\ Len(last.newTransactions) = 2
    /\ last.transactions # <<>>
    /\ transactions[1].billId = last.bills[1].id
    /\ transactions[2].billId = last.bills[2].id
    /\ transactions[3] = last.transactions[1]

\* a pass paid one bill and returned a bill without auto-pay as it was
C28_PaidOneLeftOther ==
    /\ PassDone
    /\ Len(last.newTransactions) = 1
    /\ \E i \in DOMAIN last.bills : ~last.bills[i].autoPay /\ bills[i] = last.bills[i]

----------------------------------------------------------------------------
(* Manual payments and later passes *)

\* the loaded transactions hold a payment of bill b made through payBill (its
\* description is the bill's name) in the calendar month the pass runs in
PaidByHandThisMonth(b) ==
    \E k \in DOMAIN last.transactions :
        /\ last.transactions[k].billId = b.id
        /\ last.transactions[k].description = b.name
        /\ SameLocalMonth(last.transactions[k].createdAt, last.today)

\* C29: after a bill has been paid by hand through payBill in a month, the
\* payment persisted, a later pass in the same month produces neither an
\* auto-pay transaction nor a due-soon reminder for that bill, whatever its
\* autoPay flag and due day.
C29_NoPassAfterManualPayment ==
    PassDone =>
        \A i \in DOMAIN last.bills :
            PaidByHandThisMonth(last.bills[i]) =>
                /\ PaymentsFor(last.bills[i]) = {}
                /\ bills[i] = last.bills[i]
                /\ \A k \in DOMAIN LastEmitted :
                     LastEmitted[k].message
                       # ReminderNotif(last.bills[i], last.today, tz).msg

----------------------------------------------------------------------------
(* handleRequest *)

ApiDone == last.op \in {"createTransaction", "updateTransaction", "deleteTransaction"}

\* C30: an api operation built on handleRequest resolves with the result of
\* the local-storage fallback when the remote call throws, and rejects only
\* if the fallback itself throws: a remote failure of createTransaction,
\* updateTransaction or deleteTransaction alone never reaches the caller's
\* error branch, and a write that succeeded remotely is not written to local
\* storage.
C30_FallbackOnRemoteFailure ==
    ApiDone =>
        /\ last.threw <=> (~last.up /\ ~last.works)
        /\ (~last.up /\ last.works) =>
              /\ ~last.threw
              /\ stored.transactions = last.store.transactions
              /\ last.op = "createTransaction" =>
                    /\ stored.local = <<last.t>> \o last.store.local
                    /\ last.value = <<last.t>>
              /\ last.op = "updateTransaction" =>
                    /\ last.value = <<last.t>>
                    /\ Len(stored.local) = Len(last.store.local)
                    /\ \A i \in DOMAIN stored.local :
                         stored.local[i] = IF last.store.local[i].id = last.t.id
                                           THEN last.t ELSE last.store.local[i]
              /\ last.op = "deleteTransaction" =>
                    /\ last.value = <<>>
                    /\ stored.local
                         = SelectSeq(last.store.local, LAMBDA e : e.id # last.t.id)
        /\ last.up => /\ stored.local = last.store.local
                      /\ ~last.threw
        /\ last.threw => stored = last.store

\* a create whose remote call threw resolved with the transaction, which is
\* now in local storage and not in the remote table
C30_CreatedLocally ==
    /\ ApiDone
    /\ last.op = "createTransaction"
    /\ ~last.up /\ last.works
    /\ ~last.threw
    /\ stored.local # <<>> /\ stored.local[1] = last.t
    /\ \A i \in DOMAIN stored.transactions : stored.transactions[i].id # last.t.id

\* a delete rejected: the remote call threw and so did the fallback
C30_Rejected ==
    /\ ApiDone
    /\ last.op = "deleteTransaction"
    /\ last.threw
    /\ last.t \in Held

====
